---- MODULE Spec2Model ----
(***************************************************************************)
(* Model of the indian_stock_analytics core:                               *)
(*   - the daily loader script load_daily_nse_data.py (read CSVs,          *)
(*     validate, in-batch dedup, staging table, INSERT .. ON CONFLICT      *)
(*     upsert, archive), as the state machine Spec;                        *)
(*   - the V20 detection pass of v_20_signal_cloud.py /                    *)
(*     v_20_signal_local.py (green runs, V20 filter, retests, statuses),   *)
(*     as the state machine SpecV20;                                       *)
(*   - the loader script with a storage layer that may fault (SpecFault)   *)
(*     and on rows that carry the four prices (SpecPrices);                *)
(*   - load_combined_symbol of v_20_signal_cloud.py, which builds the      *)
(*     series of a symbol out of the date folders, as SpecLoad;            *)
(*   - the loader script file by file, with its archive step (SpecFiles),  *)
(*     and two runs of it sharing the staging table (SpecConc);            *)
(*   - the cloud pass with its year filter (SpecYear) and passes over a    *)
(*     series that grows between them (SpecAppend);                        *)
(*   - main of daily_stock_local.py, one task per symbol in a thread       *)
(*     pool, as SpecFetch.                                                 *)
(***************************************************************************)
EXTENDS Integers, Sequences, FiniteSets, TLC

VARIABLES
    pc,            \* position of the loader script
    csv_rows,      \* rows of the CSV files lying in data_path, in read order
    full_df,       \* the script's DataFrame full_df
    staging,       \* bronze.daily_nse_data_staging, rows in insertion order
    table,         \* bronze.daily_nse_data, the persisted main table
    prev_table,    \* history: the main table as it was when the run started
    merged_keys,   \* history: every (symbol, date) an upsert has written
    fault,         \* where the storage layer faulted in the current run
    vpc,           \* position of the detection pass
    df,            \* the date-sorted series the detection pass scans
    green,         \* the column df['green']
    run_id,        \* the column df['run_id']
    runs,          \* the green runs (DataFrame runs)
    v20,           \* the V20 signals (DataFrame v20), augmented step by step
    sent,          \* the messages handed to send_telegram, in order
    lpc,           \* position of load_combined_symbol
    parts,         \* the date folders under GCS_DAILY_PREFIX, in listing order
    ls_fails,      \* whether fs.ls raises
    li,            \* the folder the loop of load_combined_symbol is at
    df_list,       \* load_combined_symbol's df_list
    combined,      \* what load_combined_symbol returns
    csv_files,     \* the files glob found in data_path, in read order
    archived,      \* the files of csv_files the run has moved to the archive
    run_pc,        \* position of each of the loader runs executing concurrently
    run_df,        \* the deduplicated full_df of each of those runs
    answers,       \* what the database and the two data sources answer per symbol
    future_map,    \* the state of the future of each symbol's task
    out_files,     \* the files of output_dir, each with the symbol of its rows
    consumed,      \* the futures as_completed has yielded to main
    success_nse,   \* main's counter success_nse
    success_yf,    \* main's counter success_yf
    failed         \* main's counter failed

loader_vars == <<pc, csv_rows, full_df, staging, table, prev_table, merged_keys, fault>>
v20_vars == <<vpc, df, green, run_id, runs, v20, sent>>
load_vars == <<lpc, parts, ls_fails, li, df_list, combined>>
file_vars == <<csv_files, archived>>
conc_vars == <<run_pc, run_df>>
fetch_vars == <<answers, future_map, out_files, consumed, success_nse, success_yf, failed>>
vars == <<pc, csv_rows, full_df, staging, table, prev_table, merged_keys, fault,
          vpc, df, green, run_id, runs, v20, sent,
          lpc, parts, ls_fails, li, df_list, combined,
          csv_files, archived, run_pc, run_df,
          answers, future_map, out_files, consumed, success_nse, success_yf, failed>>

---------------------------------------------------------------------------
(* Bounds and domains of the loader model *)

\* most rows the CSV files of one run hold
MaxRows == 2

\* pandas NaN of a numeric column (pd.to_numeric(errors='coerce')), SQL NULL
NaN == -1

\* a null symbol cell (pandas NaN / None in the symbol column)
NoSymbol == "<NA>"

ValidSymbols == {"A"}
InvalidSymbols == {"", NoSymbol}
Dates == {1, 2}
Turnovers == {NaN, 1, 2}
\* closeprice stands for every numeric column other than turnoverinrs
ClosePrices == {1, 2}

ValidRows ==
    [symbol : ValidSymbols, date : Dates, turnoverinrs : Turnovers,
     closeprice : ClosePrices]

\* one representative row per invalid symbol: such a row is dropped whole
InvalidRows ==
    [symbol : InvalidSymbols, date : {1}, turnoverinrs : {1}, closeprice : {1}]

Rows == ValidRows \cup InvalidRows

RECURSIVE SeqsUpTo(_, _)
SeqsUpTo(S, n) ==
    IF n = 0 THEN {<<>>}
    ELSE LET shorter == SeqsUpTo(S, n - 1)
         IN  shorter \cup {Append(s, x) : s \in {t \in shorter : Len(t) = n - 1}, x \in S}

Batches == SeqsUpTo(Rows, MaxRows)

Key(r) == <<r.symbol, r.date>>
Keys(rs) == {Key(r) : r \in rs}
Range(s) == {s[i] : i \in 1..Len(s)}

---------------------------------------------------------------------------
(* load_daily_nse_data.py, the pure parts *)

\* line 34: the per-file filter on the symbol column
ValidSymbol(s) == s # NoSymbol /\ s # "" /\ s # "nan"

\* ReadCsv that gives up the files when one row has an invalid symbol
ReadCsvAllOrNothing(rows) ==
    IF \E i \in 1..Len(rows) : ~ValidSymbol(rows[i].symbol) THEN <<>> ELSE rows

\* lines 23-54: read the files, drop rows with an invalid symbol, concatenate
ReadCsv(rows) == SelectSeq(rows, LAMBDA r : ValidSymbol(r.symbol))

\* lines 98-103: the final validation, null and empty symbols removed again
FinalValidation(d) ==
    SelectSeq(d, LAMBDA r : r.symbol # NoSymbol /\ r.symbol # "")

RECURSIVE ConcatDesc(_, _)
\* the rows of d with a non-NaN turnover, highest value first; rows of equal
\* turnover keep their order in d
ConcatDesc(d, t) ==
    IF t < 0 THEN <<>>
    ELSE SelectSeq(d, LAMBDA r : r.turnoverinrs = t) \o ConcatDesc(d, t - 1)

MaxTurnoverOf(d) ==
    LET ts == {d[i].turnoverinrs : i \in 1..Len(d)} \ {NaN}
    IN  IF ts = {} THEN 0 ELSE CHOOSE t \in ts : \A u \in ts : u <= t

RECURSIVE ConcatAsc(_, _, _)
ConcatAsc(d, t, top) ==
    IF t > top THEN <<>>
    ELSE SelectSeq(d, LAMBDA r : r.turnoverinrs = t) \o ConcatAsc(d, t + 1, top)

\* SortValues with ascending=False left out
SortValuesAscending(d) ==
    ConcatAsc(d, 0, MaxTurnoverOf(d))
        \o SelectSeq(d, LAMBDA r : r.turnoverinrs = NaN)

\* line 115: sort_values("turnoverinrs", ascending=False); NaN goes last
\* (na_position='last'); ties keep the input order (for frames this short
\* numpy's default sort is an insertion sort, and pandas reverses around it)
SortValues(d) ==
    ConcatDesc(d, MaxTurnoverOf(d))
        \o SelectSeq(d, LAMBDA r : r.turnoverinrs = NaN)

\* line 116: drop_duplicates(subset=["symbol", "date"], keep="first")
DropDuplicates(d) ==
    LET keep == {i \in 1..Len(d) : \A j \in 1..(i - 1) : Key(d[j]) # Key(d[i])}
        RECURSIVE Pick(_)
        Pick(i) == IF i > Len(d) THEN <<>>
                   ELSE (IF i \in keep THEN <<d[i]>> ELSE <<>>) \o Pick(i + 1)
    IN  Pick(1)

\* lines 112-117: the in-batch dedup
DedupFrame(d) == DropDuplicates(SortValues(d))

\* UpsertRow as a plain INSERT, the ON CONFLICT clause left out
UpsertRowPlainInsert(T, r) == T \cup {r}

\* UpsertRow with DO UPDATE SET col = target.col + EXCLUDED.col
UpsertRowAccumulate(T, r) ==
    IF \E t \in T : <<t.symbol, t.date>> = <<r.symbol, r.date>>
    THEN {IF <<t.symbol, t.date>> = <<r.symbol, r.date>>
          THEN [t EXCEPT !.turnoverinrs = t.turnoverinrs + r.turnoverinrs,
                         !.closeprice = t.closeprice + r.closeprice]
          ELSE t : t \in T}
    ELSE T \cup {r}

\* UpsertRow with the conflict target (symbol) instead of (symbol, date)
UpsertRowSymbolConflict(T, r) ==
    IF \E t \in T : t.symbol = r.symbol
    THEN {IF t.symbol = r.symbol
          THEN [t EXCEPT !.turnoverinrs = r.turnoverinrs,
                         !.closeprice = r.closeprice]
          ELSE t : t \in T}
    ELSE T \cup {r}

\* UpsertRow with ON CONFLICT (symbol, date) DO NOTHING
UpsertRowDoNothing(T, r) ==
    IF \E t \in T : <<t.symbol, t.date>> = <<r.symbol, r.date>> THEN T ELSE T \cup {r}

\* the columns of ON CONFLICT (symbol, date)
KeyColumns == {"symbol", "date"}

\* lines 130-146, one row of the SELECT: insert it, or on a conflict on
\* (symbol, date) overwrite every other column with EXCLUDED's
UpsertRow(T, r) ==
    IF \E t \in T : Key(t) = Key(r)
    THEN {IF Key(t) = Key(r)
          THEN [c \in DOMAIN t |-> IF c \in KeyColumns THEN t[c] ELSE r[c]]
          ELSE t : t \in T}
    ELSE T \cup {r}

\* MergeSql as a reload: the main table replaced by the staging rows
MergeSqlReplace(T, stg) == {stg[i] : i \in 1..Len(stg)}

RECURSIVE MergeSql(_, _)
\* lines 129-150: the INSERT .. SELECT .. ON CONFLICT over the staging rows
MergeSql(T, stg) ==
    IF stg = <<>> THEN T ELSE MergeSql(UpsertRow(T, Head(stg)), Tail(stg))

\* PostgreSQL rejects an ON CONFLICT DO UPDATE that would touch one row twice
AffectsRowTwice(stg) ==
    \E i, j \in 1..Len(stg) : i < j /\ Key(stg[i]) = Key(stg[j])

\* the whole script on a table T and the CSV rows b, as a function
RunScript(T, b) ==
    LET d == DedupFrame(FinalValidation(ReadCsv(b)))
    IN  IF d = <<>> \/ AffectsRowTwice(d) THEN T ELSE MergeSql(T, d)

---------------------------------------------------------------------------
(* load_daily_nse_data.py, the script step by step *)

\* the statement of lines 149-150 outside a transaction: what it wrote
\* before the fault stays
EngineAutocommit(before, after, faulted) ==
    [table |-> after, pc |-> IF faulted THEN "failed" ELSE "upserted"]

\* EngineBegin inside a try/except that goes on after a fault
EngineBeginSwallow(before, after, faulted) ==
    [table |-> IF faulted THEN before ELSE after, pc |-> "upserted"]

\* lines 149-150: with engine.begin() commits when the block ends and rolls
\* back when it raises; nothing catches the exception, the script ends on it
EngineBegin(before, after, faulted) ==
    IF faulted THEN [table |-> before, pc |-> "failed"]
    ELSE [table |-> after, pc |-> "upserted"]

\* lines 18-110: new files lie in data_path; read, validate, or exit
Load(b) ==
    /\ pc = "idle"
    /\ csv_rows' = b
    /\ LET d == FinalValidation(ReadCsv(b))
       IN  /\ full_df' = d
           /\ pc' = IF d = <<>> THEN "exited" ELSE "loaded"
    /\ prev_table' = table
    /\ fault' = "none"
    /\ UNCHANGED <<staging, table, merged_keys>>

\* lines 112-117
Dedup ==
    /\ pc = "loaded"
    /\ full_df' = DedupFrame(full_df)
    /\ pc' = "deduped"
    /\ UNCHANGED <<csv_rows, staging, table, prev_table, merged_keys, fault>>

\* line 126: to_sql(STAGING_TABLE, if_exists='replace')
Stage ==
    /\ pc = "deduped"
    /\ staging' = full_df
    /\ pc' = "staged"
    /\ UNCHANGED <<csv_rows, full_df, table, prev_table, merged_keys, fault>>

\* lines 149-150: the upsert in one transaction
Upsert ==
    /\ pc = "staged"
    /\ table' = EngineBegin(table, MergeSql(table, staging),
                            AffectsRowTwice(staging)).table
    /\ pc' = EngineBegin(table, MergeSql(table, staging),
                         AffectsRowTwice(staging)).pc
    /\ merged_keys' = IF AffectsRowTwice(staging) THEN merged_keys
                      ELSE merged_keys \cup Keys(Range(staging))
    /\ fault' = IF AffectsRowTwice(staging) THEN "merge" ELSE fault
    /\ UNCHANGED <<csv_rows, full_df, staging, prev_table>>

\* line 126 when the storage layer faults: to_sql raises, the staging table is
\* left as it was (the replace rolled back) or empty (re-created, no rows),
\* and the exception ends the script
StageFault ==
    /\ pc = "deduped"
    /\ staging' \in {staging, <<>>}
    /\ pc' = "failed"
    /\ fault' = "staging"
    /\ UNCHANGED <<csv_rows, full_df, table, prev_table, merged_keys>>

\* lines 149-150 when the storage layer faults after the statement has
\* processed k of the staging rows
UpsertFault ==
    /\ pc = "staged"
    /\ \E k \in 0..Len(staging) :
           /\ table' = EngineBegin(table, MergeSql(table, SubSeq(staging, 1, k)),
                                   TRUE).table
           /\ pc' = EngineBegin(table, MergeSql(table, SubSeq(staging, 1, k)),
                                TRUE).pc
    /\ fault' = "merge"
    /\ UNCHANGED <<csv_rows, full_df, staging, prev_table, merged_keys>>

\* lines 153-169: the files are moved to the archive, the script ends
Archive ==
    /\ pc = "upserted"
    /\ csv_rows' = <<>>
    /\ full_df' = <<>>
    /\ prev_table' = table
    /\ pc' = "idle"
    /\ UNCHANGED <<staging, table, merged_keys, fault>>

\* after an exit (lines 52, 110) or a fault the script has ended; the files of
\* that run are taken away before the next run
Clear ==
    /\ pc \in {"exited", "failed"}
    /\ csv_rows' = <<>>
    /\ full_df' = <<>>
    /\ pc' = "idle"
    /\ fault' = "none"
    /\ UNCHANGED <<staging, table, prev_table, merged_keys>>

LoaderInit ==
    /\ pc = "idle"
    /\ csv_rows = <<>>
    /\ full_df = <<>>
    /\ staging = <<>>
    /\ table = {}
    /\ prev_table = {}
    /\ merged_keys = {}
    /\ fault = "none"

V20Idle ==
    /\ vpc = "off"
    /\ df = <<>>
    /\ green = <<>>
    /\ run_id = <<>>
    /\ runs = <<>>
    /\ v20 = <<>>
    /\ sent = <<>>

LoadIdle ==
    /\ lpc = "off"
    /\ parts = <<>>
    /\ ls_fails = FALSE
    /\ li = 0
    /\ df_list = <<>>
    /\ combined = <<>>

FilesIdle ==
    /\ csv_files = <<>>
    /\ archived = {}

\* no concurrent loader runs
ConcIdle ==
    /\ run_pc = <<>>
    /\ run_df = <<>>

\* the daily fetcher is not running
FetchIdle ==
    /\ answers = <<>>
    /\ future_map = <<>>
    /\ out_files = <<>>
    /\ consumed = {}
    /\ success_nse = 0
    /\ success_yf = 0
    /\ failed = 0

Init == LoaderInit /\ V20Idle /\ LoadIdle /\ FilesIdle /\ ConcIdle /\ FetchIdle

Next ==
    \/ pc = "idle" /\ \E b \in Batches : Load(b) /\ UNCHANGED <<v20_vars, load_vars, file_vars, conc_vars, fetch_vars>>
    \/ Dedup /\ UNCHANGED <<v20_vars, load_vars, file_vars, conc_vars, fetch_vars>>
    \/ Stage /\ UNCHANGED <<v20_vars, load_vars, file_vars, conc_vars, fetch_vars>>
    \/ Upsert /\ UNCHANGED <<v20_vars, load_vars, file_vars, conc_vars, fetch_vars>>
    \/ Archive /\ UNCHANGED <<v20_vars, load_vars, file_vars, conc_vars, fetch_vars>>
    \/ Clear /\ UNCHANGED <<v20_vars, load_vars, file_vars, conc_vars, fetch_vars>>

Spec == Init /\ [][Next]_vars

\* the rows of the runs in which the storage layer may fault
FaultRows ==
    [symbol : ValidSymbols, date : Dates, turnoverinrs : {1, 2}, closeprice : {1}]

FaultBatches == SeqsUpTo(FaultRows, MaxRows)

\* the script with a storage layer that may fault
NextFault ==
    \/ pc = "idle" /\ \E b \in FaultBatches : Load(b) /\ UNCHANGED <<v20_vars, load_vars, file_vars, conc_vars, fetch_vars>>
    \/ Dedup /\ UNCHANGED <<v20_vars, load_vars, file_vars, conc_vars, fetch_vars>>
    \/ Stage /\ UNCHANGED <<v20_vars, load_vars, file_vars, conc_vars, fetch_vars>>
    \/ StageFault /\ UNCHANGED <<v20_vars, load_vars, file_vars, conc_vars, fetch_vars>>
    \/ Upsert /\ UNCHANGED <<v20_vars, load_vars, file_vars, conc_vars, fetch_vars>>
    \/ UpsertFault /\ UNCHANGED <<v20_vars, load_vars, file_vars, conc_vars, fetch_vars>>
    \/ Archive /\ UNCHANGED <<v20_vars, load_vars, file_vars, conc_vars, fetch_vars>>
    \/ Clear /\ UNCHANGED <<v20_vars, load_vars, file_vars, conc_vars, fetch_vars>>

SpecFault == Init /\ [][NextFault]_vars

\* rows that carry the four prices: one that is a proper daily record, and
\* one for each way of not being one (a price of 0, high below low, high
\* below open, low above open and close)
Prices ==
    {[openprice |-> 1, highprice |-> 2, lowprice |-> 1, closeprice |-> 2],
     [openprice |-> 1, highprice |-> 2, lowprice |-> 0, closeprice |-> 0],
     [openprice |-> 2, highprice |-> 1, lowprice |-> 2, closeprice |-> 1],
     [openprice |-> 2, highprice |-> 1, lowprice |-> 1, closeprice |-> 1],
     [openprice |-> 2, highprice |-> 2, lowprice |-> 2, closeprice |-> 1],
     [openprice |-> NaN, highprice |-> 2, lowprice |-> 1, closeprice |-> 2]}

PricedRows ==
    {[symbol |-> sy, date |-> d, turnoverinrs |-> 1,
      openprice |-> p.openprice, highprice |-> p.highprice,
      lowprice |-> p.lowprice, closeprice |-> p.closeprice]
        : sy \in ValidSymbols, d \in Dates, p \in Prices}

PricedBatches == SeqsUpTo(PricedRows, MaxRows)

\* the script on files whose rows carry the four prices
NextPrices ==
    \/ pc = "idle" /\ \E b \in PricedBatches : Load(b) /\ UNCHANGED <<v20_vars, load_vars, file_vars, conc_vars, fetch_vars>>
    \/ Dedup /\ UNCHANGED <<v20_vars, load_vars, file_vars, conc_vars, fetch_vars>>
    \/ Stage /\ UNCHANGED <<v20_vars, load_vars, file_vars, conc_vars, fetch_vars>>
    \/ Upsert /\ UNCHANGED <<v20_vars, load_vars, file_vars, conc_vars, fetch_vars>>
    \/ Archive /\ UNCHANGED <<v20_vars, load_vars, file_vars, conc_vars, fetch_vars>>
    \/ Clear /\ UNCHANGED <<v20_vars, load_vars, file_vars, conc_vars, fetch_vars>>

SpecPrices == Init /\ [][NextPrices]_vars

\* most files glob finds in data_path
MaxFiles == 2

\* the rows of the files: one valid row per date, and a row without symbol
FileRows ==
    [symbol : ValidSymbols, date : Dates, turnoverinrs : {1}, closeprice : {1}]
        \cup [symbol : {NoSymbol}, date : {1}, turnoverinrs : {1}, closeprice : {1}]

\* a file of data_path: one pd.read_csv raises on, one without a column named
\* symbol, or one with rows (none, one, or a row without symbol and a valid one)
Files ==
    {[kind |-> k, rows |-> <<>>] : k \in {"unreadable", "no_symbol_column", "csv"}}
        \cup {[kind |-> "csv", rows |-> <<r>>] : r \in FileRows}
        \cup {[kind |-> "csv", rows |-> <<i, r>>] :
                  i \in {x \in FileRows : x.symbol = NoSymbol},
                  r \in {x \in FileRows : x.symbol # NoSymbol}}

\* lines 23-48, one file: it is appended to df_list when it reads, has the
\* symbol column and keeps a row after the filter of line 34
FileLoaded(f) ==
    f.kind = "csv" /\ \E i \in 1..Len(f.rows) : ValidSymbol(f.rows[i].symbol)

RECURSIVE RowsOfFiles(_)
\* lines 23-54: the rows of the files that are appended to df_list
RowsOfFiles(fs) ==
    IF fs = <<>> THEN <<>>
    ELSE (IF FileLoaded(Head(fs)) THEN Head(fs).rows ELSE <<>>) \o RowsOfFiles(Tail(fs))

\* lines 160-167: shutil.move is tried on every file of csv_files; moved are
\* the files on which it does not raise
ArchivedFiles(fs, moved) == moved

\* lines 18-110 on the files fs of data_path
LoadFiles(fs) ==
    /\ Load(RowsOfFiles(fs))
    /\ csv_files' = fs
    /\ archived' = {}

\* lines 153-169: every file of csv_files is moved to the archive unless its
\* move fails; the script ends
ArchiveFiles ==
    /\ Archive
    /\ \E moved \in SUBSET (1..Len(csv_files)) :
           archived' = ArchivedFiles(csv_files, moved)
    /\ UNCHANGED csv_files

\* the script on files, with a storage layer that may fault
NextFiles ==
    \/ pc = "idle" /\ \E fs \in SeqsUpTo(Files, MaxFiles) : LoadFiles(fs)
                   /\ UNCHANGED <<v20_vars, load_vars, conc_vars, fetch_vars>>
    \/ Dedup /\ UNCHANGED <<v20_vars, load_vars, file_vars, conc_vars, fetch_vars>>
    \/ Stage /\ UNCHANGED <<v20_vars, load_vars, file_vars, conc_vars, fetch_vars>>
    \/ StageFault /\ UNCHANGED <<v20_vars, load_vars, file_vars, conc_vars, fetch_vars>>
    \/ Upsert /\ UNCHANGED <<v20_vars, load_vars, file_vars, conc_vars, fetch_vars>>
    \/ UpsertFault /\ UNCHANGED <<v20_vars, load_vars, file_vars, conc_vars, fetch_vars>>
    \/ ArchiveFiles /\ UNCHANGED <<v20_vars, load_vars, conc_vars, fetch_vars>>
    \/ Clear /\ UNCHANGED <<v20_vars, load_vars, file_vars, conc_vars, fetch_vars>>

SpecFiles == Init /\ [][NextFiles]_vars

(* Two runs of the script at the same time. Each run has its own full_df;  *)
(* STAGING_TABLE is the one name 'daily_nse_data_staging' for every run,   *)
(* so the staging table and the main table are shared.                     *)

Runs == {1, 2}

ConcRows ==
    [symbol : ValidSymbols, date : Dates, turnoverinrs : {1}, closeprice : ClosePrices]

\* what a run holds at line 117: a batch read, validated and deduplicated,
\* with a row left (line 110 ends the script otherwise)
ConcFrames(n) ==
    {DedupFrame(FinalValidation(ReadCsv(b))) : b \in SeqsUpTo(ConcRows, n)} \ {<<>>}

\* line 126 in run r: to_sql(STAGING_TABLE, if_exists='replace'), taken as one
\* step that leaves the staging table with the rows of this run
StageOf(r) ==
    /\ run_pc[r] = "deduped"
    /\ staging' = run_df[r]
    /\ run_pc' = [run_pc EXCEPT ![r] = "staged"]
    /\ UNCHANGED <<pc, csv_rows, full_df, table, prev_table, merged_keys, fault, run_df>>

\* lines 149-150 in run r: the upsert reads whatever the staging table holds
UpsertOf(r) ==
    /\ run_pc[r] = "staged"
    /\ table' = EngineBegin(table, MergeSql(table, staging),
                            AffectsRowTwice(staging)).table
    /\ run_pc' = [run_pc EXCEPT ![r] =
                     EngineBegin(table, MergeSql(table, staging),
                                 AffectsRowTwice(staging)).pc]
    /\ merged_keys' = IF AffectsRowTwice(staging) THEN merged_keys
                      ELSE merged_keys \cup Keys(Range(staging))
    /\ UNCHANGED <<pc, csv_rows, full_df, staging, prev_table, fault, run_df>>

\* two runs with different batches are at line 120, the main table is empty
ConcInit ==
    /\ run_pc = [r \in Runs |-> "deduped"]
    /\ run_df \in {f \in [Runs -> ConcFrames(MaxRows)] : f[1] # f[2]}

InitConc == LoaderInit /\ V20Idle /\ LoadIdle /\ FilesIdle /\ ConcInit /\ FetchIdle

NextConc ==
    \/ \E r \in Runs : StageOf(r) /\ UNCHANGED <<v20_vars, load_vars, file_vars, fetch_vars>>
    \/ \E r \in Runs : UpsertOf(r) /\ UNCHANGED <<v20_vars, load_vars, file_vars, fetch_vars>>

SpecConc == InitConc /\ [][NextConc]_vars

---------------------------------------------------------------------------
(* main of daily_stock_local.py: one task per symbol in a thread pool, the   *)
(* results counted by main as the futures complete.                          *)

\* most symbols in company_symbols
MaxSymbols == 2

SymbolNames == <<"A", "B", "C", "D">>

\* company_symbols, distinct symbols
CompanySymbols(n) == {SymbolNames[i] : i \in 1..n}

\* what the database, nselib and yfinance answer for one symbol: the query of
\* max(date) works or raises; nselib gives EQ rows, nothing, rows of other
\* series only, or raises; yfinance gives rows, one row (none is left once the
\* row without prevclose is dropped), nothing, or raises
Answers ==
    {[db |-> "raises", nse |-> "rows", yf |-> "rows"],
     [db |-> "ok", nse |-> "rows", yf |-> "rows"],
     [db |-> "ok", nse |-> "empty", yf |-> "rows"],
     [db |-> "ok", nse |-> "no_eq", yf |-> "empty"],
     [db |-> "ok", nse |-> "raises", yf |-> "one_row"],
     [db |-> "ok", nse |-> "raises", yf |-> "raises"]}

\* the strings process_symbol returns, by the part that tells them apart
Results ==
    {"nselib: Saved", "yfinance: Saved", "Both APIs failed",
     "yfinance: No valid data after transformation", "Hybrid failed"}

\* one file of output_dir for every task
OutputFileShared(symbol) == "daily"

\* lines 312 and 362: os.path.join(output_dir, f"{symbol}.csv")
OutputFile(symbol) == symbol

\* df.to_csv(output_file): the file is created or overwritten
ToCsv(files, name, content) ==
    [f \in DOMAIN files \cup {name} |-> IF f = name THEN content ELSE files[f]]

\* line 404: min(20, max(4, len(company_symbols)//10 or 4))
MaxWorkersOf(n) ==
    LET tenth == IF n \div 10 = 0 THEN 4 ELSE n \div 10
        atleast == IF tenth > 4 THEN tenth ELSE 4
    IN  IF atleast < 20 THEN atleast ELSE 20

\* the tasks a worker thread is running
Running == {s \in DOMAIN future_map : future_map[s] \in {"queried", "fallback"}}

\* lines 405-409: every symbol's task is submitted to the pool
Submit ==
    /\ answers # <<>>
    /\ future_map = <<>>
    /\ future_map' = [s \in DOMAIN answers |-> "pending"]
    /\ UNCHANGED <<answers, out_files, consumed, success_nse, success_yf, failed>>

\* lines 235-256 and 366-367: a free worker takes a task and queries max(date);
\* an exception ends the task with 'Hybrid failed'
QueryMaxDate(s) ==
    /\ future_map[s] = "pending"
    /\ Cardinality(Running) < MaxWorkersOf(Cardinality(DOMAIN answers))
    /\ future_map' = [future_map EXCEPT ![s] =
                         IF answers[s].db = "raises" THEN "Hybrid failed"
                         ELSE "queried"]
    /\ UNCHANGED <<answers, out_files, consumed, success_nse, success_yf, failed>>

\* lines 259-317: nselib; EQ rows are saved to the file of the symbol, anything
\* else raises into the fallback
TryNselib(s) ==
    /\ future_map[s] = "queried"
    /\ IF answers[s].nse = "rows"
       THEN /\ out_files' = ToCsv(out_files, OutputFile(s),
                                  [symbol |-> s, source |-> "nselib"])
            /\ future_map' = [future_map EXCEPT ![s] = "nselib: Saved"]
       ELSE /\ out_files' = out_files
            /\ future_map' = [future_map EXCEPT ![s] = "fallback"]
    /\ UNCHANGED <<answers, consumed, success_nse, success_yf, failed>>

\* lines 319-367: yfinance; rows are transformed and saved to the file of the
\* symbol
TryYfinance(s) ==
    /\ future_map[s] = "fallback"
    /\ IF answers[s].yf = "rows"
       THEN /\ out_files' = ToCsv(out_files, OutputFile(s),
                                  [symbol |-> s, source |-> "yfinance"])
            /\ future_map' = [future_map EXCEPT ![s] = "yfinance: Saved"]
       ELSE /\ out_files' = out_files
            /\ future_map' = [future_map EXCEPT ![s] =
                   IF answers[s].yf = "empty" THEN "Both APIs failed"
                   ELSE IF answers[s].yf = "one_row"
                        THEN "yfinance: No valid data after transformation"
                        ELSE "Hybrid failed"]
    /\ UNCHANGED <<answers, consumed, success_nse, success_yf, failed>>

\* lines 410-418: as_completed yields a finished future, main counts its result
Consume(s) ==
    /\ future_map[s] \in Results
    /\ s \notin consumed
    /\ consumed' = consumed \cup {s}
    /\ success_nse' = success_nse + (IF future_map[s] = "nselib: Saved" THEN 1 ELSE 0)
    /\ success_yf' = success_yf +
          (IF future_map[s] # "nselib: Saved" /\ future_map[s] = "yfinance: Saved"
           THEN 1 ELSE 0)
    /\ failed' = failed +
          (IF future_map[s] \notin {"nselib: Saved", "yfinance: Saved"} THEN 1 ELSE 0)
    /\ UNCHANGED <<answers, future_map, out_files>>

\* main is at line 399: the symbols are known, nothing is submitted yet
FetchInit ==
    /\ \E n \in 1..MaxSymbols : answers \in [CompanySymbols(n) -> Answers]
    /\ future_map = <<>>
    /\ out_files = <<>>
    /\ consumed = {}
    /\ success_nse = 0
    /\ success_yf = 0
    /\ failed = 0

InitFetch == LoaderInit /\ V20Idle /\ LoadIdle /\ FilesIdle /\ ConcIdle /\ FetchInit

NextFetch ==
    \/ Submit /\ UNCHANGED <<loader_vars, v20_vars, load_vars, file_vars, conc_vars>>
    \/ \E s \in DOMAIN future_map :
          QueryMaxDate(s) /\ UNCHANGED <<loader_vars, v20_vars, load_vars, file_vars, conc_vars>>
    \/ \E s \in DOMAIN future_map :
          TryNselib(s) /\ UNCHANGED <<loader_vars, v20_vars, load_vars, file_vars, conc_vars>>
    \/ \E s \in DOMAIN future_map :
          TryYfinance(s) /\ UNCHANGED <<loader_vars, v20_vars, load_vars, file_vars, conc_vars>>
    \/ \E s \in DOMAIN future_map :
          Consume(s) /\ UNCHANGED <<loader_vars, v20_vars, load_vars, file_vars, conc_vars>>

SpecFetch == InitFetch /\ [][NextFetch]_vars

---------------------------------------------------------------------------
(* float64 arithmetic, as pandas computes gain_pct and the 2% band.        *)
(* A natural number is a sequence of limbs (base 2^15, least significant   *)
(* first, no leading zero limb); a positive double is [m, e] with value    *)
(* m * 2^e and 2^52 <= m < 2^53. Every operation rounds to nearest, ties   *)
(* to even, as IEEE 754 does. Prices are positive and far from the         *)
(* subnormal and overflow ranges.                                          *)

\* bits in the significand of a float64
MantBits == 53

LimbBits == 15
Base == 2 ^ LimbBits

RECURSIVE BNorm(_)
BNorm(a) ==
    IF a = <<>> THEN a
    ELSE IF a[Len(a)] = 0 THEN BNorm(SubSeq(a, 1, Len(a) - 1)) ELSE a

RECURSIVE BFromInt(_)
BFromInt(n) == IF n = 0 THEN <<>> ELSE <<n % Base>> \o BFromInt(n \div Base)

Limb(a, i) == IF i <= Len(a) THEN a[i] ELSE 0

RECURSIVE BCmpFrom(_, _, _)
BCmpFrom(a, b, i) ==
    IF i = 0 THEN 0
    ELSE IF a[i] < b[i] THEN -1
    ELSE IF a[i] > b[i] THEN 1
    ELSE BCmpFrom(a, b, i - 1)

\* -1, 0 or 1 as a < b, a = b, a > b
BCmp(a, b) ==
    IF Len(a) < Len(b) THEN -1
    ELSE IF Len(a) > Len(b) THEN 1
    ELSE BCmpFrom(a, b, Len(a))

RECURSIVE BAddFrom(_, _, _, _)
BAddFrom(a, b, i, carry) ==
    IF i > Len(a) /\ i > Len(b)
    THEN IF carry = 0 THEN <<>> ELSE <<carry>>
    ELSE LET t == Limb(a, i) + Limb(b, i) + carry
         IN  <<t % Base>> \o BAddFrom(a, b, i + 1, t \div Base)

BAdd(a, b) == BAddFrom(a, b, 1, 0)

RECURSIVE BSubFrom(_, _, _, _)
BSubFrom(a, b, i, borrow) ==
    IF i > Len(a) THEN <<>>
    ELSE LET t == a[i] - Limb(b, i) - borrow
         IN  IF t < 0 THEN <<t + Base>> \o BSubFrom(a, b, i + 1, 1)
             ELSE <<t>> \o BSubFrom(a, b, i + 1, 0)

\* a - b, for a >= b
BSub(a, b) == BNorm(BSubFrom(a, b, 1, 0))

RECURSIVE BMulSmallFrom(_, _, _, _)
BMulSmallFrom(a, k, i, carry) ==
    IF i > Len(a)
    THEN IF carry = 0 THEN <<>> ELSE <<carry>>
    ELSE LET t == a[i] * k + carry
         IN  <<t % Base>> \o BMulSmallFrom(a, k, i + 1, t \div Base)

\* a * k, for 0 <= k < Base
BMulSmall(a, k) == IF k = 0 THEN <<>> ELSE BMulSmallFrom(a, k, 1, 0)

RECURSIVE Zeros(_)
Zeros(n) == IF n = 0 THEN <<>> ELSE <<0>> \o Zeros(n - 1)

\* a * 2^n
BShl(a, n) ==
    IF a = <<>> THEN a
    ELSE Zeros(n \div LimbBits) \o BMulSmall(a, 2 ^ (n % LimbBits))

RECURSIVE BMulFrom(_, _, _)
BMulFrom(a, b, i) ==
    IF i > Len(b) THEN <<>>
    ELSE BAdd(Zeros(i - 1) \o BMulSmall(a, b[i]), BMulFrom(a, b, i + 1))

BMul(a, b) == BNorm(BMulFrom(a, b, 1))

RECURSIVE IntBitLen(_)
IntBitLen(n) == IF n = 0 THEN 0 ELSE 1 + IntBitLen(n \div 2)

BBitLen(a) ==
    IF a = <<>> THEN 0 ELSE LimbBits * (Len(a) - 1) + IntBitLen(a[Len(a)])

\* bit i of a, bit 0 the least significant
BBit(a, i) == (Limb(a, i \div LimbBits + 1) \div (2 ^ (i % LimbBits))) % 2

RECURSIVE BHalfFrom(_, _)
BHalfFrom(a, i) ==
    IF i > Len(a) THEN <<>>
    ELSE <<(a[i] \div 2) + (Limb(a, i + 1) % 2) * (Base \div 2)>> \o BHalfFrom(a, i + 1)

\* a \div 2
BHalf(a) == BNorm(BHalfFrom(a, 1))

RECURSIVE DivBits(_, _, _, _, _)
RECURSIVE DivBit(_, _, _, _, _)
\* long division over the bits j..0 of one limb: q the quotient bits and r the
\* remainder so far
DivBits(limb, d, j, q, r) ==
    IF j < 0 THEN [q |-> q, r |-> r]
    ELSE DivBit(limb, d, j, q,
                BAdd(BMulSmall(r, 2), BFromInt((limb \div (2 ^ j)) % 2)))

\* one bit of the quotient, r2 the remainder with bit j brought down. (The
\* test on q makes TLC compute q and r2 at each step instead of piling up
\* unevaluated expressions.)
DivBit(limb, d, j, q, r2) ==
    IF q >= 0 /\ BCmp(r2, d) >= 0
    THEN DivBits(limb, d, j - 1, 2 * q + 1, BSub(r2, d))
    ELSE DivBits(limb, d, j - 1, 2 * q, r2)

RECURSIVE DivLimbs(_, _, _, _, _)
RECURSIVE DivLimb(_, _, _, _, _)
\* long division over the limbs i..1 of a, most significant first: q the
\* quotient limbs so far (least significant first), r the remainder so far
DivLimbs(a, d, i, q, r) ==
    IF i = 0 THEN [q |-> q, r |-> r]
    ELSE DivLimb(a, d, i, q, DivBits(a[i], d, LimbBits - 1, 0, r))

\* one limb of the quotient, st the quotient bits and remainder of limb i
DivLimb(a, d, i, q, st) ==
    IF st.q >= 0 /\ Len(q) >= 0
    THEN DivLimbs(a, d, i - 1, <<st.q>> \o q, st.r)
    ELSE [q |-> q, r |-> st.r]

NormQuotient(qr) == [q |-> BNorm(qr.q), r |-> qr.r]

\* quotient and remainder of a by d, d > 0
BDivMod(a, d) == NormQuotient(DivLimbs(a, d, Len(a), <<>>, <<>>))

FZero == [m |-> <<>>, e |-> 0]

\* numerator and denominator of (n / d) * 2^s
Num(n, s) == IF s >= 0 THEN BShl(n, s) ELSE n
Den(d, s) == IF s >= 0 THEN d ELSE BShl(d, -s)

\* the s that puts n * 2^s / d in [2^52, 2^53): s0 is right or one too many
FShift(n, d, s0) ==
    IF BCmp(Num(n, s0), BShl(Den(d, s0), MantBits)) >= 0 THEN s0 - 1 ELSE s0

\* nearest, ties to even: half compares twice the remainder with the divisor
RoundsUp(half, q) == half > 0 \/ (half = 0 /\ BBit(q, 0) = 1)

\* the quotient rounded to an integer
Rounded(qr, den) ==
    IF RoundsUp(BCmp(BMulSmall(qr.r, 2), den), qr.q)
    THEN BAdd(qr.q, <<1>>)
    ELSE qr.q

\* q * 2^e with the significand back in 53 bits when rounding carried out
FPack(q, e) ==
    IF BBitLen(q) > MantBits
    THEN [m |-> BHalf(q), e |-> e + 1]
    ELSE [m |-> q, e |-> e]

FRoundAt(n, d, e0, s) ==
    FPack(Rounded(BDivMod(Num(n, s), Den(d, s)), Den(d, s)), e0 - s)

\* the double nearest to (n / d) * 2^e0, ties to even
FRound(n, d, e0) ==
    IF n = <<>> THEN FZero
    ELSE FRoundAt(n, d, e0, FShift(n, d, MantBits - (BBitLen(n) - BBitLen(d))))

Min2(a, b) == IF a <= b THEN a ELSE b

\* the double of the decimal literal c / 100
FFromCents(c) == FRound(BFromInt(c), BFromInt(100), 0)

FFromInt(k) == FRound(BFromInt(k), <<1>>, 0)

FAdd(x, y) ==
    LET e == Min2(x.e, y.e)
    IN  FRound(BAdd(BShl(x.m, x.e - e), BShl(y.m, y.e - e)), <<1>>, e)

\* -1, 0 or 1 as x < y, x = y, x > y, for doubles >= 0
FCmp(x, y) ==
    IF x.m = <<>> \/ y.m = <<>>
    THEN (IF x.m = y.m THEN 0 ELSE IF x.m = <<>> THEN -1 ELSE 1)
    ELSE LET e == Min2(x.e, y.e)
         IN  BCmp(BShl(x.m, x.e - e), BShl(y.m, y.e - e))

\* x - y, for x >= y
FSub(x, y) ==
    LET e == Min2(x.e, y.e)
    IN  FRound(BSub(BShl(x.m, x.e - e), BShl(y.m, y.e - e)), <<1>>, e)

FDiv(x, y) == FRound(x.m, y.m, x.e - y.e)

FMul(x, y) == FRound(BMul(x.m, y.m), <<1>>, x.e + y.e)

---------------------------------------------------------------------------
(* The V20 detection pass: process_symbol of v_20_signal_cloud.py and the  *)
(* per-symbol loop body of v_20_signal_local.py. Prices are held in paise  *)
(* (hundredths of a rupee); the float64 value of a price p is              *)
(* FFromCents(p), and two prices compare as their paise do.                *)

\* most records a series holds
MaxLen == 4

\* pd.NaT, an undefined retest date; the dates of a series start at 1
NaT == 0

\* lowprice values: a buy price, the price exactly 2% above it, one paisa more
Lows == {10050, 10251, 10252}
\* highprice values: exactly 20% above the lowest low, and one paisa more
Highs == {12060, 12061}
\* openprice is the same every day; closeprice equals it or is one paisa above
OpenPrices == {11000}
ClosePricesOfDay == {11000, 11001}

Days ==
    [openprice : OpenPrices, closeprice : ClosePricesOfDay,
     lowprice : Lows, highprice : Highs]

\* a series as process_symbol scans it from line 90 on: date-sorted, one
\* record per date (load_combined_symbol drops duplicate dates and sorts);
\* the date of a record is its position
SeriesOf(days) ==
    [i \in 1..Len(days) |->
        [date |-> i, openprice |-> days[i].openprice,
         closeprice |-> days[i].closeprice, lowprice |-> days[i].lowprice,
         highprice |-> days[i].highprice]]

GreenDays == {d \in Days : d.closeprice > d.openprice}

\* two green runs of two records around one record between them
TwoRunDays ==
    {<<a1, a2, n, b1, b2>> :
        a1 \in GreenDays, a2 \in GreenDays, n \in Days \ GreenDays,
        b1 \in GreenDays, b2 \in GreenDays}

\* four records in rupees 10/12/9/13, 12/15/11/16, 9/8/7/10, 8/7/6/9
\* (open/close/low/high): a rise of two days, then a fall of two days
ReferenceDays ==
    << [openprice |-> 1000, closeprice |-> 1200, lowprice |-> 900, highprice |-> 1300],
       [openprice |-> 1200, closeprice |-> 1500, lowprice |-> 1100, highprice |-> 1600],
       [openprice |-> 900, closeprice |-> 800, lowprice |-> 700, highprice |-> 1000],
       [openprice |-> 800, closeprice |-> 700, lowprice |-> 600, highprice |-> 900] >>

\* the series of the model: every series of up to n records, and the longer
\* ones above
AllDays(n) == SeqsUpTo(Days, n) \cup TwoRunDays \cup {ReferenceDays}

AllSeries(n) == {SeriesOf(days) : days \in AllDays(n)}

\* every lowprice and every highprice of the series above
AllLows == {days[i].lowprice : i \in 1..4, days \in {ReferenceDays}} \cup Lows
AllHighs == {days[i].highprice : i \in 1..4, days \in {ReferenceDays}} \cup Highs

\* (sell_price - buy_price) / buy_price * 100 in float64
GainPctOf(buy, sell) ==
    FMul(FDiv(FSub(FFromCents(sell), FFromCents(buy)), FFromCents(buy)),
         FFromInt(100))

\* gain_pct for every buy and sell price of the model, computed once
GainPctTable == [buy \in AllLows, sell \in AllHighs |-> GainPctOf(buy, sell)]

Twenty == FFromInt(20)

\* buy_price * (1 + ARR) in float64, ARR the literal 0.02
ArrBoundOf(buy) == FMul(FFromCents(buy), FAdd(FFromInt(1), FFromCents(2)))

\* low <= buy_price * (1 + ARR) for every pair of lows, computed once
ArrTable ==
    [low \in AllLows, buy \in AllLows |-> FCmp(FFromCents(low), ArrBoundOf(buy)) <= 0]

\* low < buy_price * (1 + ARR), the band without its upper edge
ArrTableStrict ==
    [low \in AllLows, buy \in AllLows |-> FCmp(FFromCents(low), ArrBoundOf(buy)) < 0]

\* Green with >= for >
GreenOrFlat(r) == r.closeprice >= r.openprice

\* line 91: df['green'] = df['closeprice'] > df['openprice']
Green(r) == r.closeprice > r.openprice

RECURSIVE RunIdCountGreen(_, _)
\* RunIdAt with the cumsum taken over green itself
RunIdCountGreen(g, i) ==
    IF i = 0 THEN 0
    ELSE RunIdCountGreen(g, i - 1) + (IF g[i] THEN 1 ELSE 0)

RECURSIVE RunIdAt(_, _)
\* line 92: (df['green'] != df['green'].shift()).cumsum(); the first record
\* differs from the NaN shifted in, so the ids start at 1
RunIdAt(g, i) ==
    IF i = 1 THEN 1
    ELSE RunIdAt(g, i - 1) + (IF g[i] # g[i - 1] THEN 1 ELSE 0)

MinOf(S) == CHOOSE x \in S : \A y \in S : x <= y
MaxOf(S) == CHOOSE x \in S : \A y \in S : y <= x

\* RunOf with sell_price=('highprice','first')
RunOfFirstHigh(d, ids, k) ==
    LET idx == {i \in 1..Len(d) : ids[i] = k}
        buy == MinOf({d[i].lowprice : i \in idx})
        sell == d[MinOf(idx)].highprice
    IN  [start_date |-> d[MinOf(idx)].date,
         end_date |-> d[MaxOf(idx)].date,
         buy_price |-> buy,
         sell_price |-> sell,
         length |-> Cardinality(idx),
         gain_pct |-> GainPctTable[buy, sell]]

\* lines 97-103 and 106: the aggregate of the green records with run id k
RunOf(d, ids, k) ==
    LET idx == {i \in 1..Len(d) : ids[i] = k}
        buy == MinOf({d[i].lowprice : i \in idx})
        sell == MaxOf({d[i].highprice : i \in idx})
    IN  [start_date |-> d[MinOf(idx)].date,
         end_date |-> d[MaxOf(idx)].date,
         buy_price |-> buy,
         sell_price |-> sell,
         length |-> Cardinality(idx),
         gain_pct |-> GainPctTable[buy, sell]]

RECURSIVE RunsFrom(_, _, _, _)
\* lines 94-106: df[df['green']].groupby('run_id').agg(...), groups in id order
RunsFrom(d, g, ids, k) ==
    IF d = <<>> \/ k > ids[Len(d)] THEN <<>>
    ELSE (IF \E i \in 1..Len(d) : ids[i] = k /\ g[i]
          THEN <<RunOf(d, ids, k)>> ELSE <<>>) \o RunsFrom(d, g, ids, k + 1)

\* IsV20 without the floor on the length
IsV20NoLengthFloor(r) == FCmp(r.gain_pct, Twenty) >= 0

\* line 108: (runs['length'] >= 2) & (runs['gain_pct'] >= 20)
IsV20(r) == r.length >= 2 /\ FCmp(r.gain_pct, Twenty) >= 0

\* BuyRetest taking the latest qualifying date
BuyRetestLatest(d, row) ==
    LET d_buy == {d[i].date : i \in {j \in 1..Len(d) :
                     d[j].date > row.start_date /\ d[j].lowprice <= row.buy_price}}
    IN  IF d_buy # {} THEN MaxOf(d_buy) ELSE NaT

\* lines 115-116: the first date after start_date with lowprice <= buy_price
BuyRetest(d, row) ==
    LET d_buy == {d[i].date : i \in {j \in 1..Len(d) :
                     d[j].date > row.start_date /\ d[j].lowprice <= row.buy_price}}
    IN  IF d_buy # {} THEN MinOf(d_buy) ELSE NaT

\* SellRetest searching from the start of the run instead of the buy retest
SellRetestFromStart(d, row, buy_dt) ==
    IF buy_dt = NaT THEN NaT
    ELSE LET d_sell == {d[i].date : i \in {j \in 1..Len(d) :
                          d[j].date > row.start_date /\ d[j].highprice >= row.sell_price}}
         IN  IF d_sell # {} THEN MinOf(d_sell) ELSE NaT

\* SellRetest searched whether or not there is a buy retest
SellRetestWithoutBuy(d, row, buy_dt) ==
    LET d_sell == {d[i].date : i \in {j \in 1..Len(d) :
                      d[j].date > buy_dt /\ d[j].highprice >= row.sell_price}}
    IN  IF d_sell # {} THEN MinOf(d_sell) ELSE NaT

\* lines 118-122: NaT without a buy retest, else the first date after it with
\* highprice >= sell_price
SellRetest(d, row, buy_dt) ==
    IF buy_dt = NaT THEN NaT
    ELSE LET d_sell == {d[i].date : i \in {j \in 1..Len(d) :
                          d[j].date > buy_dt /\ d[j].highprice >= row.sell_price}}
         IN  IF d_sell # {} THEN MinOf(d_sell) ELSE NaT

\* lines 113-125: the two retest columns of one row
WithRetests(d, row) ==
    LET buy_dt == BuyRetest(d, row)
    IN  [start_date |-> row.start_date, end_date |-> row.end_date,
         buy_price |-> row.buy_price, sell_price |-> row.sell_price,
         length |-> row.length, gain_pct |-> row.gain_pct,
         buy_retest_date |-> buy_dt,
         sell_retest_date |-> SellRetest(d, row, buy_dt)]

\* WithinArr without the upper edge of the band
WithinArrStrict(low, buy) == ArrTableStrict[low, buy]

\* line 135: sub['lowprice'].min() <= row.buy_price * (1 + ARR)
WithinArr(low, buy) == ArrTable[low, buy]

\* lines 130-137 (local: _compute_buy_status)
BuyStatus(d, row) ==
    IF row.buy_retest_date # NaT THEN "Completed"
    ELSE LET sub == {i \in 1..Len(d) : d[i].date > row.start_date}
         IN  IF sub # {} /\ WithinArr(MinOf({d[i].lowprice : i \in sub}), row.buy_price)
             THEN "About to Arrive"
             ELSE "Pending"

\* line 138
SellStatus(row) == IF row.sell_retest_date # NaT THEN "Completed" ELSE "Pending"

\* RetestIntervalDays as a plain difference of the two date values
RetestIntervalPlain(buy_dt, sell_dt) == sell_dt - buy_dt

\* line 142: (sell_retest_date - buy_retest_date).dt.days; a difference with
\* NaT is NaT and its .dt.days is NaN
RetestIntervalDays(buy_dt, sell_dt) ==
    IF buy_dt = NaT \/ sell_dt = NaT THEN NaN ELSE sell_dt - buy_dt

\* lines 128-142: the status columns and retest_interval_days of one row
WithStatuses(d, row) ==
    [start_date |-> row.start_date, end_date |-> row.end_date,
     buy_price |-> row.buy_price, sell_price |-> row.sell_price,
     length |-> row.length, gain_pct |-> row.gain_pct,
     buy_retest_date |-> row.buy_retest_date,
     sell_retest_date |-> row.sell_retest_date,
     buy_status |-> BuyStatus(d, row),
     sell_status |-> SellStatus(row),
     retest_interval_days |->
         RetestIntervalDays(row.buy_retest_date, row.sell_retest_date)]

\* IsActionable dropping every signal with a Completed status
IsActionableNeither(row) ==
    ~(row.buy_status = "Completed" \/ row.sell_status = "Completed")

\* line 144: ~((buy_status == 'Completed') & (sell_status == 'Completed'))
IsActionable(row) ==
    ~(row.buy_status = "Completed" /\ row.sell_status = "Completed")

\* lines 153-159: the line of one signal, by the values it prints (NaT
\* prints as 'None')
SignalLine(row) ==
    [kind |-> "signal",
     start_date |-> row.start_date, buy_price |-> row.buy_price,
     end_date |-> row.end_date, sell_price |-> row.sell_price,
     buy_retest_date |-> row.buy_retest_date, buy_status |-> row.buy_status,
     sell_retest_date |-> row.sell_retest_date, sell_status |-> row.sell_status]

\* lines 148-161: the two header lines, then one line per actionable row
Message(d, actionable) ==
    << [kind |-> "range", min_date |-> d[1].date, max_date |-> d[Len(d)].date],
       [kind |-> "title"] >>
        \o [k \in 1..Len(actionable) |-> SignalLine(actionable[k])]

(* process_symbol step by step *)

\* lines 77-92: nothing to do for an empty series, else flag the green days
\* and number the runs
FlagGreen ==
    /\ vpc = "loaded"
    /\ IF df = <<>>
       THEN /\ vpc' = "done"
            /\ UNCHANGED <<green, run_id>>
       ELSE /\ green' = [i \in 1..Len(df) |-> Green(df[i])]
            /\ run_id' = [i \in 1..Len(df) |-> RunIdAt(green', i)]
            /\ vpc' = "flagged"
    /\ UNCHANGED <<df, runs, v20, sent>>

\* lines 94-106
AggRuns ==
    /\ vpc = "flagged"
    /\ runs' = RunsFrom(df, green, run_id, 1)
    /\ vpc' = "runs"
    /\ UNCHANGED <<df, green, run_id, v20, sent>>

\* lines 108-110: the V20 filter; process_symbol returns when nothing is left
FilterV20 ==
    /\ vpc = "runs"
    /\ v20' = SelectSeq(runs, IsV20)
    /\ vpc' = IF v20' = <<>> THEN "done" ELSE "v20"
    /\ UNCHANGED <<df, green, run_id, runs, sent>>

\* lines 112-125
Retests ==
    /\ vpc = "v20"
    /\ v20' = [k \in 1..Len(v20) |-> WithRetests(df, v20[k])]
    /\ vpc' = "retested"
    /\ UNCHANGED <<df, green, run_id, runs, sent>>

\* lines 127-142
Statuses ==
    /\ vpc = "retested"
    /\ v20' = [k \in 1..Len(v20) |-> WithStatuses(df, v20[k])]
    /\ vpc' = "statused"
    /\ UNCHANGED <<df, green, run_id, runs, sent>>

\* lines 144-161: nothing is sent without an actionable signal, else one
\* message goes to send_telegram; process_symbol ends
Report ==
    /\ vpc = "statused"
    /\ LET actionable == SelectSeq(v20, IsActionable)
       IN  sent' = IF actionable = <<>> THEN sent
                   ELSE Append(sent, Message(df, actionable))
    /\ vpc' = "reported"
    /\ UNCHANGED <<df, green, run_id, runs, v20>>

\* the series of one symbol is loaded, nothing is computed yet
V20Init ==
    /\ vpc = "loaded"
    /\ df \in AllSeries(MaxLen)
    /\ green = <<>>
    /\ run_id = <<>>
    /\ runs = <<>>
    /\ v20 = <<>>
    /\ sent = <<>>

InitV20 == LoaderInit /\ V20Init /\ LoadIdle /\ FilesIdle /\ ConcIdle /\ FetchIdle

NextV20 ==
    \/ FlagGreen /\ UNCHANGED <<loader_vars, load_vars, file_vars, conc_vars, fetch_vars>>
    \/ AggRuns /\ UNCHANGED <<loader_vars, load_vars, file_vars, conc_vars, fetch_vars>>
    \/ FilterV20 /\ UNCHANGED <<loader_vars, load_vars, file_vars, conc_vars, fetch_vars>>
    \/ Retests /\ UNCHANGED <<loader_vars, load_vars, file_vars, conc_vars, fetch_vars>>
    \/ Statuses /\ UNCHANGED <<loader_vars, load_vars, file_vars, conc_vars, fetch_vars>>
    \/ Report /\ UNCHANGED <<loader_vars, load_vars, file_vars, conc_vars, fetch_vars>>

SpecV20 == InitV20 /\ [][NextV20]_vars

(* Detection passes over a growing series: v20_handler runs process_symbol  *)
(* on every request, and between two requests the daily job adds records   *)
(* with later dates.                                                       *)

\* the records of a growing series: a green day at the buy price and one
\* above it, and three other days with the low above the 2% band, on its
\* edge, and at the buy price
AppendDays ==
    {[openprice |-> 11000, closeprice |-> 11001, lowprice |-> 10050, highprice |-> 12061],
     [openprice |-> 11000, closeprice |-> 11001, lowprice |-> 10252, highprice |-> 12060],
     [openprice |-> 11000, closeprice |-> 11000, lowprice |-> 10252, highprice |-> 12060],
     [openprice |-> 11000, closeprice |-> 11000, lowprice |-> 10251, highprice |-> 12060],
     [openprice |-> 11000, closeprice |-> 11000, lowprice |-> 10050, highprice |-> 12061]}

\* the series of the first pass
StartSeries(n) == {SeriesOf(days) : days \in SeqsUpTo(AppendDays, n)}

\* a pass has ended, a record with the next date is added to the series and
\* the next request starts a pass over it; the locals of process_symbol are
\* new, the messages sent stay sent
AppendRecord(day) ==
    /\ vpc \in {"done", "reported"}
    /\ Len(df) < MaxLen + 1
    /\ df' = df \o SubSeq(SeriesOf(df \o <<day>>), Len(df) + 1, Len(df) + 1)
    /\ green' = <<>>
    /\ run_id' = <<>>
    /\ runs' = <<>>
    /\ v20' = <<>>
    /\ vpc' = "loaded"
    /\ UNCHANGED sent

AppendInit ==
    /\ vpc = "loaded"
    /\ df \in StartSeries(MaxLen - 1)
    /\ green = <<>>
    /\ run_id = <<>>
    /\ runs = <<>>
    /\ v20 = <<>>
    /\ sent = <<>>

InitAppend == LoaderInit /\ AppendInit /\ LoadIdle /\ FilesIdle /\ ConcIdle /\ FetchIdle

NextAppend ==
    \/ FlagGreen /\ UNCHANGED <<loader_vars, load_vars, file_vars, conc_vars, fetch_vars>>
    \/ AggRuns /\ UNCHANGED <<loader_vars, load_vars, file_vars, conc_vars, fetch_vars>>
    \/ FilterV20 /\ UNCHANGED <<loader_vars, load_vars, file_vars, conc_vars, fetch_vars>>
    \/ Retests /\ UNCHANGED <<loader_vars, load_vars, file_vars, conc_vars, fetch_vars>>
    \/ Statuses /\ UNCHANGED <<loader_vars, load_vars, file_vars, conc_vars, fetch_vars>>
    \/ Report /\ UNCHANGED <<loader_vars, load_vars, file_vars, conc_vars, fetch_vars>>
    \/ \E day \in AppendDays :
          AppendRecord(day) /\ UNCHANGED <<loader_vars, load_vars, file_vars, conc_vars, fetch_vars>>

SpecAppend == InitAppend /\ [][NextAppend]_vars

(* process_symbol of v_20_signal_cloud.py from its first line: the series  *)
(* that load_combined_symbol returns holds records of several calendar     *)
(* years. A date is year * 1000 + day of the year.                         *)

Year(date) == date \div 1000

\* the records of a loaded series: two green days and two other days, with a
\* low at the buy price or above it and a high at or under the sell price
YearDays ==
    {[openprice |-> 11000, closeprice |-> 11001, lowprice |-> 10050, highprice |-> 12061],
     [openprice |-> 11000, closeprice |-> 11001, lowprice |-> 10251, highprice |-> 12061],
     [openprice |-> 11000, closeprice |-> 11000, lowprice |-> 10050, highprice |-> 12061],
     [openprice |-> 11000, closeprice |-> 11000, lowprice |-> 10252, highprice |-> 12060]}

\* the date of record i of a series whose first a records are the last days
\* of 2024, the next b the first days of 2025, the rest the first of 2026
DateOf(i, a, b) ==
    IF i <= a THEN 2024 * 1000 + 366 - (a - i)
    ELSE IF i <= a + b THEN 2025 * 1000 + (i - a)
    ELSE 2026 * 1000 + (i - a - b)

YearSeriesOf(days, a, b) ==
    [i \in 1..Len(days) |->
        [date |-> DateOf(i, a, b), openprice |-> days[i].openprice,
         closeprice |-> days[i].closeprice, lowprice |-> days[i].lowprice,
         highprice |-> days[i].highprice]]

\* every date-sorted series of up to n records over 2024, 2025 and 2026
YearSeries(n) ==
    {YearSeriesOf(days, a, b) :
        days \in SeqsUpTo(YearDays, n), a \in 0..n, b \in 0..n}

\* process_symbol without line 82
YearFilterNone(d) == d

\* line 82: df[df['date'].dt.year == 2025]
YearFilter(d) == SelectSeq(d, LAMBDA r : Year(r.date) = 2025)

\* lines 77-84: nothing to do for an empty series or one without a record of
\* 2025, else the pass goes on with the records of 2025
KeepYear ==
    /\ vpc = "fetched"
    /\ df' = IF combined = <<>> THEN <<>> ELSE YearFilter(combined)
    /\ vpc' = IF df' = <<>> THEN "done" ELSE "loaded"
    /\ UNCHANGED <<green, run_id, runs, v20, sent>>

\* load_combined_symbol has returned the series of one symbol
YearInit ==
    /\ vpc = "fetched"
    /\ df = <<>>
    /\ green = <<>>
    /\ run_id = <<>>
    /\ runs = <<>>
    /\ v20 = <<>>
    /\ sent = <<>>
    /\ lpc = "returned"
    /\ parts = <<>>
    /\ ls_fails = FALSE
    /\ li = 0
    /\ df_list = <<>>
    /\ combined \in YearSeries(MaxLen)

InitYear == LoaderInit /\ YearInit /\ FilesIdle /\ ConcIdle /\ FetchIdle

NextYear ==
    \/ KeepYear /\ UNCHANGED <<loader_vars, load_vars, file_vars, conc_vars, fetch_vars>>
    \/ FlagGreen /\ UNCHANGED <<loader_vars, load_vars, file_vars, conc_vars, fetch_vars>>
    \/ AggRuns /\ UNCHANGED <<loader_vars, load_vars, file_vars, conc_vars, fetch_vars>>
    \/ FilterV20 /\ UNCHANGED <<loader_vars, load_vars, file_vars, conc_vars, fetch_vars>>
    \/ Retests /\ UNCHANGED <<loader_vars, load_vars, file_vars, conc_vars, fetch_vars>>
    \/ Statuses /\ UNCHANGED <<loader_vars, load_vars, file_vars, conc_vars, fetch_vars>>
    \/ Report /\ UNCHANGED <<loader_vars, load_vars, file_vars, conc_vars, fetch_vars>>

SpecYear == InitYear /\ [][NextYear]_vars

---------------------------------------------------------------------------
(* load_combined_symbol of v_20_signal_cloud.py: the series of one symbol   *)
(* out of the date folders of the bucket.                                   *)

\* most date folders the bucket holds
MaxParts == 2

\* a record of the symbol in a parquet file; closeprice stands for every
\* column other than date and turnoverinrs
PartRecords == [date : {1, 2}, closeprice : {1, 2}, turnoverinrs : {1, 2}]

\* the rows of one <date>/<symbol>.parquet: one record, or two of rising date
PartFiles ==
    {<<r>> : r \in PartRecords}
        \cup {<<r1, r2>> : r1 \in {r \in PartRecords : r.date = 1},
                           r2 \in {r \in PartRecords : r.date = 2}}

\* what a date folder holds for the symbol: no file, a file on which fs.exists
\* raises, a file on which pd.read_parquet raises, or a file that reads
Contents ==
    {[kind |-> k, rows |-> <<>>] : k \in {"missing", "exists_fails", "read_fails"}}
        \cup {[kind |-> "ok", rows |-> f] : f \in PartFiles}

\* the folders are named by daily_stock_cloud.py after the day before the
\* scrape, strftime("%d-%m-%Y"): <<day, month>> of one year
FolderNames == {<<31, 7>>, <<1, 8>>, <<2, 8>>}

\* the place of a name in the order of the names as strings, day first
NameKey(name) == name[1] * 100 + name[2]

\* the place of a name in time, month first
Recency(name) == name[2] * 100 + name[1]

RECURSIVE Listing(_)
\* line 36: fs.ls lists the folders by name
Listing(names) ==
    IF names = {} THEN <<>>
    ELSE <<CHOOSE n \in names : \A o \in names : NameKey(n) <= NameKey(o)>>
         \o Listing(names \ {CHOOSE n \in names : \A o \in names : NameKey(n) <= NameKey(o)})

\* the buckets: up to n folders, in listing order, each with its contents
Buckets(n) ==
    UNION {{[i \in 1..Len(Listing(S)) |->
                [name |-> Listing(S)[i], kind |-> c[i].kind, rows |-> c[i].rows]]
               : c \in [1..Cardinality(S) -> Contents]}
              : S \in {T \in SUBSET FolderNames : Cardinality(T) <= n}}

\* ReadOutcome without the try/except of lines 43-49
ReadOutcomeUncaught(folder) ==
    IF folder.kind = "ok" THEN [frames |-> <<folder.rows>>, raised |-> FALSE]
    ELSE IF folder.kind = "missing" THEN [frames |-> <<>>, raised |-> FALSE]
    ELSE [frames |-> <<>>, raised |-> TRUE]

\* lines 42-49, one folder: the frame read from it, if any; an exception of
\* fs.exists or pd.read_parquet is caught and the folder is passed over
ReadOutcome(folder) ==
    IF folder.kind = "ok" THEN [frames |-> <<folder.rows>>, raised |-> FALSE]
    ELSE [frames |-> <<>>, raised |-> FALSE]

RECURSIVE ConcatFrames(_)
\* line 53: pd.concat(df_list, ignore_index=True)
ConcatFrames(frames) ==
    IF frames = <<>> THEN <<>> ELSE Head(frames) \o ConcatFrames(Tail(frames))

\* DropDuplicateDates left out
KeepDuplicateDates(d) == d

RECURSIVE DropDuplicateDates(_)
\* line 57: drop_duplicates(subset=['date']), keep='first' by default: a row
\* stays when no earlier row has its date
DropDuplicateDates(d) ==
    IF d = <<>> THEN <<>>
    ELSE <<Head(d)>>
         \o DropDuplicateDates(SelectSeq(Tail(d), LAMBDA r : r.date # Head(d).date))

RECURSIVE SortByDate(_, _)
\* line 58: sort_values('date'), the rows of date t and later; rows of one
\* date keep their order
SortByDate(d, t) ==
    IF \A i \in 1..Len(d) : d[i].date < t THEN <<>>
    ELSE SelectSeq(d, LAMBDA r : r.date = t) \o SortByDate(d, t + 1)

\* lines 50-62 on a non-empty df_list
Combine(frames) == SortByDate(DropDuplicateDates(ConcatFrames(frames)), 1)

(* load_combined_symbol step by step *)

\* lines 33-40: list the folders; an exception of fs.ls returns the empty frame
ListDirs ==
    /\ lpc = "start"
    /\ IF ls_fails
       THEN lpc' = "returned" /\ li' = li
       ELSE lpc' = "loop" /\ li' = 1
    /\ UNCHANGED <<parts, ls_fails, df_list, combined>>

\* lines 41-49, one round of the loop
ReadPartition ==
    /\ lpc = "loop"
    /\ li <= Len(parts)
    /\ IF ReadOutcome(parts[li]).raised
       THEN lpc' = "raised" /\ UNCHANGED <<li, df_list>>
       ELSE /\ df_list' = df_list \o ReadOutcome(parts[li]).frames
            /\ li' = li + 1
            /\ lpc' = lpc
    /\ UNCHANGED <<parts, ls_fails, combined>>

\* lines 50-62: the empty frame without data, else concat, dedup, sort
Return ==
    /\ lpc = "loop"
    /\ li > Len(parts)
    /\ combined' = IF df_list = <<>> THEN <<>> ELSE Combine(df_list)
    /\ lpc' = "returned"
    /\ UNCHANGED <<parts, ls_fails, li, df_list>>

\* load_combined_symbol is called on a bucket
LoadInit ==
    /\ lpc = "start"
    /\ parts \in Buckets(MaxParts)
    /\ ls_fails \in BOOLEAN
    /\ li = 0
    /\ df_list = <<>>
    /\ combined = <<>>

InitLoad == LoaderInit /\ V20Idle /\ LoadInit /\ FilesIdle /\ ConcIdle /\ FetchIdle

NextLoad ==
    \/ ListDirs /\ UNCHANGED <<loader_vars, v20_vars, file_vars, conc_vars, fetch_vars>>
    \/ ReadPartition /\ UNCHANGED <<loader_vars, v20_vars, file_vars, conc_vars, fetch_vars>>
    \/ Return /\ UNCHANGED <<loader_vars, v20_vars, file_vars, conc_vars, fetch_vars>>

SpecLoad == InitLoad /\ [][NextLoad]_vars

---------------------------------------------------------------------------
(* Series Store: the claims *)

\* the in-batch survivors of the CSV rows b
Survivors(b) == DedupFrame(FinalValidation(ReadCsv(b)))

\* the candidates of b for key k
Candidates(b, k) == {r \in Range(ReadCsv(b)) : Key(r) = k}

\* the highest turnover among the rows rs, NaN when none has one
TopTurnover(rs) ==
    LET ts == {r.turnoverinrs : r \in rs} \ {NaN}
    IN  IF ts = {} THEN NaN ELSE CHOOSE t \in ts : \A u \in ts : u <= t

\* the rows of s in the order f, a permutation of the indices of s
Permuted(s, f) == [i \in 1..Len(s) |-> s[f[i]]]

\* C1: merge idempotence. When the upsert of a run has committed, the table is
\* the script's result on the table the run started from, and running the
\* script once more on the same CSV rows leaves the table as it is.
C1_MergeIdempotent ==
    pc = "upserted" =>
        /\ table = RunScript(prev_table, csv_rows)
        /\ RunScript(table, csv_rows) = table

\* a committed run that changed a stored record
C1_Witness ==
    /\ pc = "upserted"
    /\ table # prev_table
    /\ \E t \in prev_table : \E r \in Range(staging) : Key(t) = Key(r) /\ t # r

\* C2: key uniqueness. In every state the main table holds no two records with
\* the same (symbol, date), and its keys are exactly the keys ever merged.
C2_KeyUnique ==
    /\ \A t1, t2 \in table : Key(t1) = Key(t2) => t1 = t2
    /\ Keys(table) = merged_keys

\* a committed run whose batch held two different candidates for a key that an
\* earlier batch had already stored
C2_Witness ==
    /\ pc = "upserted"
    /\ \E i, j \in 1..Len(csv_rows) :
          /\ i < j
          /\ ValidSymbol(csv_rows[i].symbol)
          /\ Key(csv_rows[i]) = Key(csv_rows[j])
          /\ csv_rows[i] # csv_rows[j]
          /\ Key(csv_rows[i]) \in Keys(prev_table)
    /\ Cardinality(table) = Cardinality(Dates)

\* C3: merge determinism inside a batch. After the dedup, full_df holds one row
\* per key of the batch; for every permutation of the CSV rows the survivor of
\* each key has the highest turnoverinrs among the key's candidates, and is
\* that candidate itself when only one candidate has the highest turnover.
C3_MaxTurnoverSurvives ==
    pc = "deduped" =>
        /\ full_df = Survivors(csv_rows)
        /\ \A f \in Permutations(1..Len(csv_rows)) :
              LET p == Permuted(csv_rows, f)
                  d == Survivors(p)
              IN  /\ Keys(Range(d)) = Keys(Range(ReadCsv(csv_rows)))
                  /\ \A i \in 1..Len(d) :
                        LET c == Candidates(csv_rows, Key(d[i]))
                            top == {r \in c : r.turnoverinrs = TopTurnover(c)}
                        IN  /\ \A j \in 1..Len(d) : Key(d[j]) = Key(d[i]) => j = i
                            /\ d[i] \in top

\* a batch whose candidates for one key differ in turnover, the lower one first
C3_Witness ==
    /\ pc = "deduped"
    /\ \E i, j \in 1..Len(csv_rows) :
          /\ i < j
          /\ ValidSymbol(csv_rows[i].symbol)
          /\ Key(csv_rows[i]) = Key(csv_rows[j])
          /\ csv_rows[i].turnoverinrs # NaN
          /\ csv_rows[i].turnoverinrs < csv_rows[j].turnoverinrs
          /\ csv_rows[j] \in Range(full_df)
          /\ csv_rows[i] \notin Range(full_df)

\* the second batch of the commutativity claims: every batch of one row
OtherBatches == {<<>>} \cup {<<r>> : r \in Rows}

\* the survivors of b1 and b2 agree on every key they share
AgreeOnSharedKeys(b1, b2) ==
    \A r1 \in Range(Survivors(b1)) : \A r2 \in Range(Survivors(b2)) :
        Key(r1) = Key(r2) => r1 = r2

\* C4 as stated: merging the run's batch and then any other batch gives the
\* same table as merging the other batch first.
C4_Commutative ==
    pc = "upserted" =>
        \A b2 \in OtherBatches :
            RunScript(table, b2) = RunScript(RunScript(prev_table, b2), csv_rows)

\* C4 amended: the two orders give the same table whenever the survivors of
\* the two batches agree on every key they share.
C4_CommutativeWhenAgreeing ==
    pc = "upserted" =>
        \A b2 \in OtherBatches :
            AgreeOnSharedKeys(csv_rows, b2) =>
                RunScript(table, b2) = RunScript(RunScript(prev_table, b2), csv_rows)

\* a committed run that changed a table with records in it, and another
\* batch that agrees with the run's and changes the table again
C4_Witness ==
    /\ pc = "upserted"
    /\ prev_table # {}
    /\ table # prev_table
    /\ \E b2 \in OtherBatches :
          /\ b2 # <<>>
          /\ AgreeOnSharedKeys(csv_rows, b2)
          /\ RunScript(table, b2) # table


---------------------------------------------------------------------------
(* Detection pass: the claims *)

\* the five attributes of a run the aggregation emits, without gain_pct
RunAttrs(r) ==
    [start_date |-> r.start_date, end_date |-> r.end_date,
     buy_price |-> r.buy_price, sell_price |-> r.sell_price,
     length |-> r.length]

\* the claimed filter in exact arithmetic on paise
ExactV20(r) ==
    r.length >= 2 /\ (r.sell_price - r.buy_price) * 100 >= 20 * r.buy_price

\* C5: a run is in the V20 output if and only if its length is at least 2 and
\* (sell_price - buy_price) * 100 >= 20 * buy_price, a gain of exactly 20%
\* included, and the output keeps the runs in their input order. The float64
\* gain_pct of the code is below 20 for some runs that gain exactly 20%, so
\* this statement is violated.
C5_V20FilterExact ==
    vpc \in {"v20", "done"} => v20 = SelectSeq(runs, ExactV20)

IsGreenDay(r) == r.closeprice > r.openprice

\* the maximal contiguous blocks of green records, as pairs of positions
MaximalGreenBlocks(d) ==
    {blk \in (1..Len(d)) \X (1..Len(d)) :
        /\ blk[1] <= blk[2]
        /\ \A i \in blk[1]..blk[2] : IsGreenDay(d[i])
        /\ blk[1] = 1 \/ ~IsGreenDay(d[blk[1] - 1])
        /\ blk[2] = Len(d) \/ ~IsGreenDay(d[blk[2] + 1])}

BlockAttrs(d, blk) ==
    [start_date |-> d[blk[1]].date, end_date |-> d[blk[2]].date,
     buy_price |-> MinOf({d[i].lowprice : i \in blk[1]..blk[2]}),
     sell_price |-> MaxOf({d[i].highprice : i \in blk[1]..blk[2]}),
     length |-> blk[2] - blk[1] + 1]

\* C6: the runs emitted for a date-sorted series are exactly its maximal
\* contiguous blocks of records with closeprice > openprice, one run per
\* block in chronological order, each with start_date and end_date the dates
\* of the block's first and last record, buy_price its minimum lowprice,
\* sell_price its maximum highprice and length its number of records.
C6_RunsAreMaximalGreenBlocks ==
    vpc \in {"runs", "v20", "retested", "statused", "reported", "done"} =>
        /\ Len(runs) = Cardinality(MaximalGreenBlocks(df))
        /\ {RunAttrs(runs[k]) : k \in 1..Len(runs)}
               = {BlockAttrs(df, blk) : blk \in MaximalGreenBlocks(df)}
        /\ \A k \in 1..(Len(runs) - 1) : runs[k].end_date < runs[k + 1].start_date

\* two runs around a non-green record, the first of two records with its
\* minimum lowprice on the second one
C6_Witness ==
    /\ vpc = "runs"
    /\ Len(runs) = 2
    /\ runs[1].length = 2
    /\ runs[1].buy_price # df[1].lowprice
    /\ \E i \in 1..Len(df) : ~IsGreenDay(df[i])

\* C7: every record gets one run id, the ids never decrease along the
\* series, two neighbouring records share their id if and only if they share
\* their green flag, and the id grows by exactly one where the flag changes.
C7_RunIdPartition ==
    vpc \in {"flagged", "runs", "v20", "retested", "statused", "reported", "done"} =>
        /\ DOMAIN run_id = 1..Len(df)
        /\ \A i \in 1..Len(df) : run_id[i] \in Nat
        /\ \A i \in 2..Len(df) :
              /\ run_id[i] >= run_id[i - 1]
              /\ (run_id[i] = run_id[i - 1])
                    <=> (IsGreenDay(df[i]) = IsGreenDay(df[i - 1]))
              /\ IsGreenDay(df[i]) # IsGreenDay(df[i - 1])
                    => run_id[i] = run_id[i - 1] + 1

\* green, green, not green, green: two records share an id, two changes follow
C7_Witness ==
    /\ vpc = "flagged"
    /\ Len(df) = 4
    /\ run_id[1] = run_id[2]
    /\ run_id[3] = run_id[2] + 1
    /\ run_id[4] = run_id[3] + 1

\* the positions that qualify as a buy retest of a signal
BuyQualifying(d, row) ==
    {i \in 1..Len(d) : d[i].date > row.start_date /\ d[i].lowprice <= row.buy_price}

\* C8: buy_retest_date of a signal is the earliest date strictly after its
\* start_date whose lowprice <= buy_price, and it is undefined if and only
\* if no record strictly after start_date has lowprice <= buy_price.
C8_BuyRetestEarliest ==
    vpc \in {"retested", "statused", "reported"} =>
        \A k \in 1..Len(v20) :
            LET row == v20[k]
                Q == BuyQualifying(df, row)
            IN  /\ (row.buy_retest_date = NaT) <=> (Q = {})
                /\ Q # {} =>
                      \E i \in Q : /\ df[i].date = row.buy_retest_date
                                   /\ \A j \in Q : df[j].date >= df[i].date

\* a signal with two qualifying dates, the earlier one chosen
C8_Witness ==
    /\ vpc = "retested"
    /\ \E k \in 1..Len(v20) :
          /\ Cardinality(BuyQualifying(df, v20[k])) >= 2
          /\ v20[k].buy_retest_date # NaT
          /\ \E j \in BuyQualifying(df, v20[k]) : df[j].date > v20[k].buy_retest_date

\* the positions that qualify as a sell retest of a signal
SellQualifying(d, row) ==
    {i \in 1..Len(d) :
        d[i].date > row.buy_retest_date /\ d[i].highprice >= row.sell_price}

\* C9: sell_retest_date is undefined whenever buy_retest_date is undefined;
\* otherwise it is the earliest date strictly after buy_retest_date whose
\* highprice >= sell_price, undefined if there is none; a defined
\* sell_retest_date is strictly after buy_retest_date.
C9_SellRetestAfterBuy ==
    vpc \in {"retested", "statused", "reported"} =>
        \A k \in 1..Len(v20) :
            LET row == v20[k]
                Q == SellQualifying(df, row)
            IN  /\ row.buy_retest_date = NaT => row.sell_retest_date = NaT
                /\ row.buy_retest_date # NaT =>
                      /\ (row.sell_retest_date = NaT) <=> (Q = {})
                      /\ Q # {} =>
                            \E i \in Q : /\ df[i].date = row.sell_retest_date
                                         /\ \A j \in Q : df[j].date >= df[i].date
                /\ row.sell_retest_date # NaT =>
                      row.sell_retest_date > row.buy_retest_date

\* a signal with a sell retest, where a record after start_date but not after
\* the buy retest also reaches sell_price
C9_Witness ==
    /\ vpc = "retested"
    /\ \E k \in 1..Len(v20) :
          /\ v20[k].buy_retest_date # NaT
          /\ v20[k].sell_retest_date # NaT
          /\ \E i \in 1..Len(df) :
                /\ df[i].date > v20[k].start_date
                /\ df[i].date <= v20[k].buy_retest_date
                /\ df[i].highprice >= v20[k].sell_price

\* some record strictly after start_date has lowprice <= buy_price * 1.02
NearBuyPrice(d, row) ==
    \E i \in 1..Len(d) :
        d[i].date > row.start_date /\ 100 * d[i].lowprice <= 102 * row.buy_price

\* C10: buy_status is one of Completed, About to Arrive and Pending:
\* Completed if and only if buy_retest_date is defined; otherwise About to
\* Arrive if and only if some record strictly after start_date has
\* lowprice <= buy_price * 1.02; otherwise Pending.
C10_BuyStatus ==
    vpc \in {"statused", "reported"} =>
        \A k \in 1..Len(v20) :
            LET row == v20[k]
            IN  /\ row.buy_status \in {"Completed", "About to Arrive", "Pending"}
                /\ (row.buy_status = "Completed") <=> (row.buy_retest_date # NaT)
                /\ (row.buy_status = "About to Arrive")
                      <=> (row.buy_retest_date = NaT /\ NearBuyPrice(df, row))
                /\ (row.buy_status = "Pending")
                      <=> (row.buy_retest_date = NaT /\ ~NearBuyPrice(df, row))

\* a signal About to Arrive whose nearest later low is exactly 2% above its
\* buy price
C10_Witness ==
    /\ vpc = "statused"
    /\ \E k \in 1..Len(v20) :
          /\ v20[k].buy_status = "About to Arrive"
          /\ \A i \in 1..Len(df) :
                df[i].date > v20[k].start_date
                    => 100 * df[i].lowprice >= 102 * v20[k].buy_price


\* the positions of the signals that are not Completed on both sides
ActionableSignals ==
    {k \in 1..Len(v20) :
        ~(v20[k].buy_status = "Completed" /\ v20[k].sell_status = "Completed")}

\* the signal lines of a message: everything after its two header lines
SignalLinesOf(msg) == SubSeq(msg, 3, Len(msg))

\* C11: at most one notification is sent per detection pass; when the pass
\* has ended one has been sent if and only if some signal is actionable (not
\* Completed on both sides), and the message holds one signal line per
\* actionable signal, in their order, and no line for any other signal.
C11_OneMessageOfActionableSignals ==
    /\ Len(sent) <= 1
    /\ vpc \notin {"reported", "done"} => sent = <<>>
    /\ vpc = "done" => v20 = <<>> /\ sent = <<>>
    /\ vpc = "reported" =>
          /\ (sent # <<>>) <=> (ActionableSignals # {})
          /\ sent # <<>> =>
                LET lines == SignalLinesOf(sent[1])
                IN  /\ Len(lines) = Cardinality(ActionableSignals)
                    /\ \A i \in 1..Len(lines) : lines[i].kind = "signal"
                    /\ {lines[i].start_date : i \in 1..Len(lines)}
                          = {v20[k].start_date : k \in ActionableSignals}
                    /\ \A i \in 1..(Len(lines) - 1) :
                          lines[i].start_date < lines[i + 1].start_date
                    /\ \A i \in 1..Len(lines) : \A k \in 1..Len(v20) :
                          lines[i].start_date = v20[k].start_date =>
                              /\ lines[i].buy_status = v20[k].buy_status
                              /\ lines[i].sell_status = v20[k].sell_status

\* a pass with two signals, one Completed on both sides and one not: one
\* message with a single signal line
C11_Witness ==
    /\ vpc = "reported"
    /\ Len(v20) = 2
    /\ Cardinality(ActionableSignals) = 1
    /\ Len(sent) = 1
    /\ Len(SignalLinesOf(sent[1])) = 1

---------------------------------------------------------------------------
(* Series Store: faults and invalid records *)

\* C15: when the storage layer faults while a batch is staged or merged, the
\* script ends in failure with its files not archived, and the main table is
\* as it was when the run started.
C15_MergeFailureAtomic ==
    fault # "none" =>
        /\ pc = "failed"
        /\ table = prev_table
        /\ csv_rows # <<>>

\* a fault of the merge of a batch that would have changed the main table
C15_Witness ==
    /\ fault = "merge"
    /\ pc = "failed"
    /\ ~AffectsRowTwice(staging)
    /\ Len(staging) = 2
    /\ table # {}
    /\ MergeSql(table, SubSeq(staging, 1, 1)) # table
    /\ MergeSql(table, staging) # MergeSql(table, SubSeq(staging, 1, 1))

\* the rows of the batch with a symbol that is neither null nor empty
ValidCandidates == {r \in Range(csv_rows) : r.symbol \notin InvalidSymbols}

\* C16: a row whose symbol is null or empty is gone from full_df before the
\* dedup and is never in the staging table or the main table; the run exits
\* early only when no row has a valid symbol, and after the upsert every key
\* of a valid row of the batch is in the main table with the values of one of
\* the valid rows of that key.
C16_InvalidSymbolDropped ==
    /\ \A r \in Range(full_df) \cup Range(staging) \cup table :
           r.symbol \notin InvalidSymbols
    /\ pc = "exited" => ValidCandidates = {}
    /\ pc \in {"loaded", "deduped", "staged", "upserted"} =>
           Keys(Range(full_df)) = Keys(ValidCandidates)
    /\ pc = "upserted" =>
           \A r \in ValidCandidates :
               \E t \in table \cap ValidCandidates : Key(t) = Key(r)

\* a batch of one row with a null or empty symbol and one valid row, merged
C16_Witness ==
    /\ pc = "upserted"
    /\ Len(csv_rows) = 2
    /\ csv_rows[1].symbol \in InvalidSymbols
    /\ csv_rows[2].symbol \in ValidSymbols
    /\ csv_rows[2] \in table

\* the prices of a record that are present
PricesPresent(t) ==
    {t.openprice, t.highprice, t.lowprice, t.closeprice} \ {NaN}

\* the price invariants of a daily record, each over the prices present
PriceInvariants(t) ==
    /\ \A p \in PricesPresent(t) : p > 0
    /\ (t.highprice # NaN /\ t.lowprice # NaN) => t.highprice >= t.lowprice
    /\ t.highprice # NaN =>
           \A p \in {t.openprice, t.closeprice} \ {NaN} : t.highprice >= p
    /\ t.lowprice # NaN =>
           \A p \in {t.openprice, t.closeprice} \ {NaN} : t.lowprice <= p

\* C17: every record of the main table satisfies the price invariants, a
\* candidate that violates them being dropped by the merge.
C17_PriceInvariantsPersisted == \A t \in table : PriceInvariants(t)

---------------------------------------------------------------------------
(* Series Loader: the claims *)

\* the folders load_combined_symbol read a file from
ReadFolders ==
    IF ls_fails THEN {} ELSE {i \in 1..Len(parts) : parts[i].kind = "ok"}

\* the records of the read files, each with the folder it comes from
RecordsRead ==
    UNION {{[part |-> parts[i].name, row |-> parts[i].rows[k]] : k \in 1..Len(parts[i].rows)}
              : i \in ReadFolders}

DatesRead == {x.row.date : x \in RecordsRead}

\* C12: the series load_combined_symbol returns is strictly increasing by
\* date, so holds one record per date, and its dates are exactly the dates
\* found in the partitions that were read.
C12_LoaderDedupAndOrder ==
    lpc = "returned" =>
        /\ \A i \in 1..(Len(combined) - 1) : combined[i].date < combined[i + 1].date
        /\ {combined[i].date : i \in 1..Len(combined)} = DatesRead

\* two read partitions that overlap on a date, the later date listed first
C12_Witness ==
    /\ lpc = "returned"
    /\ Len(parts) = 2
    /\ ReadFolders = {1, 2}
    /\ Len(parts[1].rows) = 1 /\ parts[1].rows[1].date = 2
    /\ Len(parts[2].rows) = 2
    /\ Len(combined) = 2

\* the records read for the date of one returned record
RecordsReadOn(t) == {x \in RecordsRead : x.row.date = t}

\* C13: of the records read for one date, the returned series keeps the one
\* of the most recent partition or the one of highest turnoverinrs.
C13_LoaderConflictRule ==
    lpc = "returned" =>
        \A n \in 1..Len(combined) :
            \/ \E x \in RecordsReadOn(combined[n].date) :
                   /\ x.row = combined[n]
                   /\ \A y \in RecordsReadOn(combined[n].date) : Recency(y.part) <= Recency(x.part)
            \/ \A y \in RecordsReadOn(combined[n].date) :
                   y.row.turnoverinrs <= combined[n].turnoverinrs

\* the frames of the folders that hold a readable file, in listing order
OkFrames ==
    [i \in 1..Len(SelectSeq(parts, LAMBDA f : f.kind = "ok")) |->
        SelectSeq(parts, LAMBDA f : f.kind = "ok")[i].rows]

\* C14: load_combined_symbol never raises; a folder without a file, or whose
\* existence check or read fails, is passed over and the files of every other
\* folder are loaded; without any data, or when the listing fails, the empty
\* series is returned.
C14_LoaderTolerance ==
    /\ lpc # "raised"
    /\ lpc = "returned" =>
           /\ ~ls_fails => df_list = OkFrames
           /\ (ls_fails \/ OkFrames = <<>>) => combined = <<>>
           /\ (~ls_fails /\ OkFrames # <<>>) => combined = Combine(OkFrames)

\* a folder whose read fails next to a folder that reads
C14_Witness ==
    /\ lpc = "returned"
    /\ ~ls_fails
    /\ \E i, j \in 1..Len(parts) :
           /\ parts[i].kind \in {"exists_fails", "read_fails"}
           /\ parts[j].kind = "ok"
    /\ combined # <<>>

---------------------------------------------------------------------------
(* Detection pass: retest interval, short series, reference scenario *)

\* C18: retest_interval_days of a signal is defined exactly when both retest
\* dates are, which is exactly when sell_status is Completed; when defined it
\* is the number of days from buy_retest_date to sell_retest_date, at least 1.
C18_RetestInterval ==
    vpc \in {"statused", "reported"} =>
        \A k \in 1..Len(v20) :
            /\ (v20[k].retest_interval_days # NaN)
                   <=> (v20[k].buy_retest_date # NaT /\ v20[k].sell_retest_date # NaT)
            /\ (v20[k].retest_interval_days # NaN) <=> (v20[k].sell_status = "Completed")
            /\ v20[k].retest_interval_days # NaN =>
                   /\ v20[k].retest_interval_days
                          = v20[k].sell_retest_date - v20[k].buy_retest_date
                   /\ v20[k].retest_interval_days >= 1

\* one signal with both retests, one with the buy retest only
C18_Witness ==
    /\ vpc = "statused"
    /\ \E k \in 1..Len(v20) : v20[k].retest_interval_days >= 1
    /\ \E k \in 1..Len(v20) :
           /\ v20[k].buy_retest_date # NaT
           /\ v20[k].sell_retest_date = NaT
           /\ v20[k].retest_interval_days = NaN

\* C19: on the empty series and on a series of one record the detection pass
\* ends at one of its early returns, with no V20 signal and nothing sent.
C19_EmptyAndShortInput ==
    Len(df) <= 1 =>
        /\ v20 = <<>>
        /\ sent = <<>>
        /\ vpc \in {"loaded", "flagged", "runs", "done"}
        /\ (df = <<>> /\ vpc # "loaded") => (vpc = "done" /\ runs = <<>>)

\* one green record whose high is 20% above its low: a run, but no signal
C19_Witness ==
    /\ Len(df) = 1
    /\ vpc = "done"
    /\ Len(runs) = 1
    /\ runs[1].length = 1
    /\ FCmp(runs[1].gain_pct, Twenty) >= 0

\* C20: on the four-record reference series the pass yields exactly one V20
\* signal, the run of d1 and d2 bought at 9 and sold at 16, retested on the
\* buy side on d3 and not on the sell side, and the signal is actionable:
\* it is the one signal line of the message.
C20_ReferenceScenario ==
    (df = SeriesOf(ReferenceDays) /\ vpc = "reported") =>
        /\ Len(v20) = 1
        /\ v20[1].start_date = 1
        /\ v20[1].end_date = 2
        /\ v20[1].buy_price = 900
        /\ v20[1].sell_price = 1600
        /\ v20[1].length = 2
        /\ v20[1].buy_retest_date = 3
        /\ v20[1].buy_status = "Completed"
        /\ v20[1].sell_retest_date = NaT
        /\ v20[1].sell_status = "Pending"
        /\ IsActionable(v20[1])
        /\ Len(sent) = 1
        /\ SignalLinesOf(sent[1]) = <<SignalLine(v20[1])>>

\* the pass has gone through the reference series and has sent its message
C20_Witness ==
    /\ df = SeriesOf(ReferenceDays)
    /\ vpc = "reported"
    /\ Len(runs) = 1
    /\ Len(sent) = 1

---------------------------------------------------------------------------
(* Series Store: overwrite and frame of the upsert *)

\* C23: after the upsert of a batch the main table holds, for every key of
\* the batch, the record of the batch's in-batch survivor for that key, in
\* all its columns, whatever record the key had before.
C23_UpsertOverwrite ==
    pc = "upserted" =>
        \A i \in 1..Len(Survivors(csv_rows)) :
            /\ Survivors(csv_rows)[i] \in table
            /\ \A t \in table :
                   Key(t) = Key(Survivors(csv_rows)[i]) => t = Survivors(csv_rows)[i]

\* a survivor of lower turnover has replaced a stored record of its key, and
\* a survivor of a key not stored before has been inserted
C23_Witness ==
    /\ pc = "upserted"
    /\ \E t \in prev_table : \E i \in 1..Len(staging) :
           /\ Key(t) = Key(staging[i])
           /\ t.turnoverinrs # NaN /\ staging[i].turnoverinrs # NaN
           /\ t.turnoverinrs > staging[i].turnoverinrs
           /\ staging[i] \in table
    /\ \E i \in 1..Len(staging) : Key(staging[i]) \notin Keys(prev_table)

\* C29: the upsert of a batch deletes no record, leaves every record whose
\* key is not a key of the batch as it was, and makes the keys of the main
\* table the keys it had together with the keys of the batch.
C29_MergeFrame ==
    pc = "upserted" =>
        /\ Keys(prev_table) \subseteq Keys(table)
        /\ \A t \in prev_table :
               Key(t) \notin Keys(Range(Survivors(csv_rows))) => t \in table
        /\ Keys(table) = Keys(prev_table) \cup Keys(Range(Survivors(csv_rows)))

\* a batch of one key was merged into a table that had a record of another
\* key, and that record is still there
C29_Witness ==
    /\ pc = "upserted"
    /\ Len(staging) = 1
    /\ \E t \in prev_table : Key(t) # Key(staging[1]) /\ t \in table
    /\ Cardinality(table) = 2

---------------------------------------------------------------------------
(* Detection pass: retests and the run, statuses *)

\* C24: the retest dates of a signal, when defined, are later than the end
\* of its run, so no day of the run is its own retest. The code searches the
\* buy retest from the day after start_date, and the day of the run with the
\* lowest lowprice qualifies, so this statement is violated.
C24_RetestsAfterRun ==
    vpc \in {"retested", "statused", "reported"} =>
        \A k \in 1..Len(v20) :
            /\ v20[k].buy_retest_date # NaT => v20[k].buy_retest_date > v20[k].end_date
            /\ v20[k].sell_retest_date # NaT => v20[k].sell_retest_date > v20[k].end_date

\* C25: a signal whose sell_status is Completed has buy_status Completed, so
\* a signal is actionable exactly when its sell_status is Pending, which is
\* exactly when its sell_retest_date is undefined.
C25_StatusConsistency ==
    vpc \in {"statused", "reported"} =>
        \A k \in 1..Len(v20) :
            /\ v20[k].sell_status = "Completed" => v20[k].buy_status = "Completed"
            /\ IsActionable(v20[k]) <=> (v20[k].sell_status = "Pending")
            /\ (v20[k].sell_status = "Pending") <=> (v20[k].sell_retest_date = NaT)

\* a signal Completed on both sides next to one that is not Completed on the
\* buy side
C25_Witness ==
    /\ vpc = "statused"
    /\ \E k \in 1..Len(v20) : ~IsActionable(v20[k])
    /\ \E k \in 1..Len(v20) :
           v20[k].buy_status # "Completed" /\ IsActionable(v20[k])

---------------------------------------------------------------------------
(* Daily loader: the archive *)

\* the rows the run merges when it commits
MergedRows == Range(Survivors(RowsOfFiles(csv_files)))

\* C27: files are moved to the archive only by a run whose upsert has
\* committed; a run that is still working, has exited early or has failed in
\* staging or in the upsert has moved no file.
C27_ArchiveAfterCommit ==
    /\ archived # {} =>
           /\ pc = "idle"
           /\ fault = "none"
           /\ MergedRows # {}
           /\ MergedRows \subseteq table
    /\ fault # "none" => archived = {}
    /\ pc \in {"loaded", "deduped", "staged", "upserted", "exited", "failed"} =>
           archived = {}

\* a run whose upsert changed the main table has moved its two files
C27_Witness ==
    /\ archived = {1, 2}
    /\ fault = "none"
    /\ FileLoaded(csv_files[1]) /\ FileLoaded(csv_files[2])
    /\ Cardinality(table) = 2

\* C28: every file moved to the archive was loaded, with its valid rows in
\* the merged batch, so a file skipped while loading stays in data_path. The
\* code moves every file glob found, the skipped ones too, so this statement
\* is violated.
C28_NoUnmergedFileArchived ==
    \A i \in archived :
        /\ FileLoaded(csv_files[i])
        /\ Keys(Range(ReadCsv(csv_files[i].rows))) \subseteq Keys(table)

---------------------------------------------------------------------------
(* Detection pass of the cloud job: the year restriction *)

\* the records of a series dated in 2025
Records2025(s) == SelectSeq(s, LAMBDA r : r.date >= 2025001 /\ r.date <= 2025366)

\* the runs, the signals and the message of a pass over the series d
PassOutput(d) ==
    LET g == [i \in 1..Len(d) |-> d[i].closeprice > d[i].openprice]
        ids == [i \in 1..Len(d) |-> RunIdAt(g, i)]
        rs == RunsFrom(d, g, ids, 1)
        sig == SelectSeq(rs, IsV20)
        full == [k \in 1..Len(sig) |-> WithStatuses(d, WithRetests(d, sig[k]))]
        act == SelectSeq(full, IsActionable)
    IN  [runs |-> rs, v20 |-> full,
         sent |-> IF act = <<>> THEN <<>> ELSE <<Message(d, act)>>]

\* process_symbol has ended
PassEnded == vpc \in {"done", "reported"}

\* the series has a green record of 2024 right before a green record of 2025
SpansBoundary(s) ==
    \E i \in 1..(Len(s) - 1) :
        /\ Year(s[i].date) = 2024 /\ Year(s[i + 1].date) = 2025
        /\ s[i].closeprice > s[i].openprice
        /\ s[i + 1].closeprice > s[i + 1].openprice

\* C30: the output of the cloud pass (runs, signals with retest dates and
\* statuses, message) is the output of a pass over the records of 2025 alone,
\* so that two series with the same records of 2025 give the same output; a
\* green run across the 2024/2025 boundary starts at the first record of 2025;
\* a series without a record of 2025 gives no output.
C30_YearRestriction ==
    /\ PassEnded =>
          /\ runs = PassOutput(Records2025(combined)).runs
          /\ (vpc = "reported" => v20 = PassOutput(Records2025(combined)).v20)
          /\ (vpc = "done" => v20 = <<>>)
          /\ sent = PassOutput(Records2025(combined)).sent
    /\ \A k \in 1..Len(runs) :
          Year(runs[k].start_date) = 2025 /\ Year(runs[k].end_date) = 2025
    /\ \A k \in 1..Len(v20) :
          /\ "buy_retest_date" \in DOMAIN v20[k] =>
                v20[k].buy_retest_date \in {NaT} \cup {r.date : r \in Range(Records2025(combined))}
          /\ "sell_retest_date" \in DOMAIN v20[k] =>
                v20[k].sell_retest_date \in {NaT} \cup {r.date : r \in Range(Records2025(combined))}
    /\ (SpansBoundary(combined) /\ runs # <<>>) =>
          runs[1].start_date = Records2025(combined)[1].date
    /\ (PassEnded /\ Records2025(combined) = <<>>) =>
          vpc = "done" /\ runs = <<>> /\ v20 = <<>> /\ sent = <<>>

\* a pass over records of 2024, 2025 and 2026 has sent a message whose first
\* signal starts at the first record of 2025, the day after a green day of 2024
C30_Witness ==
    /\ vpc = "reported"
    /\ sent # <<>>
    /\ SpansBoundary(combined)
    /\ \E i \in 1..Len(combined) : Year(combined[i].date) = 2026
    /\ v20[1].start_date = 2025001

---------------------------------------------------------------------------
(* Detection passes over a growing series *)

\* the signals, with retests and statuses, of a pass over the series d
SignalsOf(d) == PassOutput(d).v20

\* the series as it was before its last n records were appended
EarlierSeries(d) == {SubSeq(d, 1, n) : n \in 1..(Len(d) - 1)}

\* the signals of a pass over d that come from a closed run: a record that
\* is not green follows the run
ClosedSignals(d) ==
    {s \in Range(SignalsOf(d)) : s.end_date < d[Len(d)].date}

StatusRank(st) ==
    IF st = "Pending" THEN 0 ELSE IF st = "About to Arrive" THEN 1 ELSE 2

\* signal t of a later pass carries signal s of an earlier pass on
CarriesOn(s, t) ==
    /\ t.start_date = s.start_date
    /\ t.end_date = s.end_date
    /\ t.buy_price = s.buy_price
    /\ t.sell_price = s.sell_price
    /\ (s.buy_retest_date # NaT => t.buy_retest_date = s.buy_retest_date)
    /\ (s.sell_retest_date # NaT => t.sell_retest_date = s.sell_retest_date)
    /\ StatusRank(t.buy_status) >= StatusRank(s.buy_status)
    /\ (s.sell_status = "Completed" => t.sell_status = "Completed")

\* C26: once the statuses of a pass are computed, every signal that a pass
\* over an earlier, shorter state of the series gave for a closed run is
\* among the signals of this pass with the same start_date, end_date,
\* buy_price and sell_price, a defined retest date unchanged, buy_status not
\* lower in the order Pending, About to Arrive, Completed, and sell_status
\* not back from Completed to Pending.
C26_MonotonicUnderAppends ==
    vpc \in {"statused", "reported"} =>
        \A p \in EarlierSeries(df) :
            \A s \in ClosedSignals(p) :
                \E k \in 1..Len(v20) : CarriesOn(s, v20[k])

\* the third pass over a series that grew twice: the signal of the run of
\* days 1 and 2 was Pending in the first message, About to Arrive in the
\* second, and its buy retest is Completed now
C26_Witness ==
    /\ vpc = "reported"
    /\ Len(sent) >= 2
    /\ Len(sent[1]) >= 3 /\ Len(sent[2]) >= 3
    /\ sent[1][3].start_date = 1 /\ sent[1][3].buy_status = "Pending"
    /\ sent[2][3].start_date = 1 /\ sent[2][3].buy_status = "About to Arrive"
    /\ v20 # <<>>
    /\ v20[1].start_date = 1 /\ v20[1].buy_status = "Completed"
    /\ v20[1].end_date = 2
    /\ v20[1] \in ClosedSignals(df)

---------------------------------------------------------------------------
(* Series Store: two merges at the same time *)

\* both runs have upserted
BothUpserted == \A r \in Runs : run_pc[r] = "upserted"

\* the main table after the merge of run a, then the merge of run b
OneAfterTheOther(a, b) == MergeSql(MergeSql(prev_table, run_df[a]), run_df[b])

\* C21: when two concurrent merge runs with different batches have both
\* staged and upserted, the main table is what the two merges give one after
\* the other in one of the two orders, and every key of both batches is in it.
C21_ConcurrentMergesSerial ==
    BothUpserted =>
        /\ table \in {OneAfterTheOther(1, 2), OneAfterTheOther(2, 1)}
        /\ \A r \in Runs : Keys(Range(run_df[r])) \subseteq Keys(table)

---------------------------------------------------------------------------
(* Daily fetcher: the tasks of the symbols do not depend on each other *)

\* how a run that takes the symbols one after the other classifies a symbol
\* with the answers a
SequentialClass(a) ==
    IF a.db = "raises" THEN "failed"
    ELSE IF a.nse = "rows" THEN "nselib"
    ELSE IF a.yf = "rows" THEN "yfinance"
    ELSE "failed"

SymbolsOfClass(c) == {s \in DOMAIN answers : SequentialClass(answers[s]) = c}

\* the files such a run leaves in output_dir
SequentialFiles ==
    [s \in SymbolsOfClass("nselib") \cup SymbolsOfClass("yfinance") |->
        [symbol |-> s, source |-> SequentialClass(answers[s])]]

\* main has counted every future
AllCounted == future_map # <<>> /\ consumed = DOMAIN future_map

\* C22: whatever the interleaving of the tasks and the order in which they
\* complete, a file of output_dir holds the rows of the symbol it is named
\* after, every counted symbol is counted once, and when all are counted the
\* files and the three counters are those of a sequential run, the counters
\* adding up to the number of symbols.
C22_FetchIndependent ==
    /\ \A f \in DOMAIN out_files :
          /\ out_files[f].symbol = f
          /\ out_files[f] = SequentialFiles[f]
    /\ success_nse + success_yf + failed = Cardinality(consumed)
    /\ \A s \in consumed : future_map[s] \in Results
    /\ AllCounted =>
          /\ out_files = SequentialFiles
          /\ success_nse = Cardinality(SymbolsOfClass("nselib"))
          /\ success_yf = Cardinality(SymbolsOfClass("yfinance"))
          /\ failed = Cardinality(SymbolsOfClass("failed"))
          /\ success_nse + success_yf + failed = Cardinality(DOMAIN answers)

\* the tasks of two symbols have run and are counted, one saved from nselib
\* and one from yfinance, each to its own file
C22_Witness ==
    /\ AllCounted
    /\ success_nse = 1 /\ success_yf = 1 /\ failed = 0
    /\ DOMAIN out_files = {"A", "B"}
    /\ out_files["A"].source # out_files["B"].source

====
